---- MODULE Spec2Model ----
(***************************************************************************)
(* Model of drive_syncer: the File Provider                                *)
(* (src/fs/drive_file_provider/provider/mod.rs), the remote and the cache  *)
(* files it works on, and the FUSE adapter                                 *)
(* (src/fs/drive2/filesystem/mod.rs).                                      *)
(*                                                                         *)
(* An Option<T> of the source is a sequence of length at most one:         *)
(* None is <<>> and Some(x) is <<x>>.                                      *)
(***************************************************************************)
EXTENDS Integers, Sequences, FiniteSets, TLC

\* ------------------------------------------------------------------ bounds
\* longest cache file / remote content, in bytes
MaxFileLen == 2
\* largest attr.size a request may produce
MaxSize == 3
\* number of file handles the provider hands out
MaxHandles == 2
\* number of inodes the adapter allocates
MaxInodes == 4
\* number of readdir upcalls of one enumeration
MaxReaddirCalls == 4
\* largest kernel readdir buffer, in entries
MaxCapacity == 3

\* the debounce window of the upload scheduler, in ticks of the clock
DebounceTicks == 2
\* the clock stops here
MaxTime == 4
\* number of commands sent to the upload scheduler
MaxCommands == 4

\* number of upcalls the adapter issues
MaxCalls == 2
\* requests the request channel of the provider buffers
MaxQueued == 1
\* number of polls of the change feed
MaxPolls == 2
\* longest list handed to remove_first_element
MaxVecLen == 3

\* ------------------------------------------------------- program constants
FirstFh == 111
FirstIno == 222
FuseRootIno == 1

None == <<>>
Some(x) == <<x>>
IsSome(o) == Len(o) = 1
Unwrap(o) == o[1]

\* ---------------------------------------------------------------- universe
RootAlias == "root"
RealRoot == "R"
UnknownId == "X"
FileIds == {"F", "G"}
DirIds == {"A", "B"}
ObjectIds == DirIds \cup FileIds
AllIds == {RealRoot, UnknownId} \cup ObjectIds

Min(a, b) == IF a < b THEN a ELSE b
Max(a, b) == IF a > b THEN a ELSE b

\* a map of the source (HashMap) is a function on the set of its keys
Has(m, k) == k \in DOMAIN m
Put(m, k, v) == [x \in (DOMAIN m) \cup {k} |-> IF x = k THEN v ELSE m[x]]
Del(m, k) == [x \in (DOMAIN m) \ {k} |-> m[x]]
EmptyMap == [x \in {} |-> 0]

InSeq(x, s) == \E i \in 1..Len(s) : s[i] = x
Count(x, s) == Cardinality({i \in 1..Len(s) : s[i] = x})

VARIABLES
    pstate,            \* provider task: "new", "listening", "panicked", or how
                       \* listen returned: "stopped", "commands_closed",
                       \* "requests_closed"
    alt_root_id,
    entries,
    parents,
    children,
    file_handles,
    next_fh,
    running_requests,  \* id -> JoinHandle of the task spawned for the id
    tasks,             \* the spawned tasks the runtime holds: [id, kind, stage]
    cache,             \* the cache directory: id -> Option<content>
    remote,            \* the remote's content per id
    remoteFiles,       \* what list_all_files reports
    downloads,         \* number of download calls the remote has received, per id
    uploads,           \* number of uploads started, per id
    resp,              \* the request served last and the ProviderResponse sent for it
    ghost,             \* history: what was written, through which handles, and
                       \* which handles were open when set_attr changed the content
    fstate,            \* adapter: "new" before init, "mounted" after
    entry_ids,         \* adapter BiMap<u64, DriveId>, a set of <<ino, id>>
    next_ino,
    allocated,         \* inodes handed out by generate_ino, in order
    enum,              \* one kernel enumeration of a directory by readdir upcalls
    uploader,          \* the upload scheduler of the write-through filesystem,
                       \* its command channel, the tasks it spawned and the clock
    legacy,            \* one file of the write-through filesystem: its DriveEntry,
                       \* the checksum the remote holds, the last comparison
    inflight,          \* the requests of the adapter threads: the request channel
                       \* and, per upcall, where it stands and what the kernel got
    poller,            \* the polls of the change feed: the start token, whether the
                       \* last check is recent, what the last poll fetched and applied
    vec                \* one Vec of ids and one call on it: the list before and
                       \* after, the target and what the call returned

pvars == <<pstate, alt_root_id, entries, parents, children, file_handles, next_fh,
           running_requests, tasks, cache, remote, remoteFiles, downloads, uploads, resp, ghost>>
fvars == <<fstate, entry_ids, next_ino, allocated, enum>>
lvars == <<uploader, legacy, inflight, poller, vec>>
vars == <<pstate, alt_root_id, entries, parents, children, file_handles, next_fh,
          running_requests, tasks, cache, remote, remoteFiles, downloads, uploads, resp, ghost,
          fstate, entry_ids, next_ino, allocated, enum, uploader, legacy, inflight, poller, vec>>


\* ------------------------------------------------------------------ remote
FolderMime == "application/vnd.google-apps.folder"
DocMime == "application/vnd.google-apps.document"
PlainMime == "text/plain"

\* the mime types convert_mime_type_to_file_type rejects; the last pattern of
\* the match is a string literal, not a wildcard
AppMimes ==
    {DocMime,
     "application/vnd.google-apps.spreadsheet",
     "application/vnd.google-apps.drawing",
     "application/vnd.google-apps.form",
     "application/vnd.google-apps.presentation",
     "application/vnd.google-apps.drive-sdk",
     "application/vnd.google-apps.script",
     "application/vnd.google-apps.*"}

\* faulty variant of convert_mime_type_to_file_type: only documents are rejected
convert_mime_type_to_file_type_DocOnly(mime) ==
    IF mime = FolderMime THEN Some("Directory")
    ELSE IF mime = DocMime THEN None
    ELSE Some("RegularFile")

\* convert_mime_type_to_file_type: Err for the google app types
convert_mime_type_to_file_type(mime) ==
    IF mime = FolderMime THEN Some("Directory")
    ELSE IF mime \in AppMimes THEN None
    ELSE Some("RegularFile")

\* what the remote reports for the root folder (get_metadata_for_file("root"))
RootMetadata ==
    [id |-> Some(RealRoot), name |-> Some("My Drive"), parents |-> None,
     mime |-> FolderMime, size |-> None]

Metadata(id, name, par, mime, size) ==
    [id |-> Some(id), name |-> Some(name), parents |-> par, mime |-> mime, size |-> size]

\* ------------------------------------------------------------------- graph
\* VecExtension::remove_first_element
RECURSIVE remove_first_element(_, _)
\* faulty variant of remove_first_element: every occurrence is removed
remove_first_element_All(s, target) == SelectSeq(s, LAMBDA x : x # target)

remove_first_element(s, target) ==
    IF s = <<>> THEN <<>>
    ELSE IF Head(s) = target THEN Tail(s)
    ELSE <<Head(s)>> \o remove_first_element(Tail(s), target)

\* iter().position(|x| x == target)
position(s, target) ==
    IF InSeq(target, s)
    THEN Some(CHOOSE i \in 1..Len(s) : s[i] = target /\ \A j \in 1..(i - 1) : s[j] # target)
    ELSE None
\* what remove_first_element returns: position(..).map(|x| self.remove(x))
removed_element(s, target) ==
    IF IsSome(position(s, target)) THEN Some(s[Unwrap(position(s, target))]) ELSE None

\* a graph value g is [parents |-> map, children |-> map]
add_parent_child_relation(g, parent_id, child_id) ==
    [parents |-> IF Has(g.parents, child_id)
                 THEN Put(g.parents, child_id, Append(g.parents[child_id], parent_id))
                 ELSE Put(g.parents, child_id, <<parent_id>>),
     children |-> IF Has(g.children, parent_id)
                  THEN Put(g.children, parent_id, Append(g.children[parent_id], child_id))
                  ELSE Put(g.children, parent_id, <<child_id>>)]

\* faulty variant of remove_parent_child_relation: only children is updated
remove_parent_child_relation_OneSided(g, parent_id, child_id) ==
    [parents |-> g.parents,
     children |-> IF Has(g.children, parent_id)
                  THEN Put(g.children, parent_id,
                           remove_first_element(g.children[parent_id], child_id))
                  ELSE g.children]

remove_parent_child_relation(g, parent_id, child_id) ==
    [parents |-> IF Has(g.parents, child_id)
                 THEN Put(g.parents, child_id,
                          remove_first_element(g.parents[child_id], parent_id))
                 ELSE g.parents,
     children |-> IF Has(g.children, parent_id)
                  THEN Put(g.children, parent_id,
                           remove_first_element(g.children[parent_id], child_id))
                  ELSE g.children]

\* faulty variant of CorrectId: the alias is not resolved
CorrectId_Unresolved(alt, id) == id

\* get_correct_id with the provider's current alt_root_id
CorrectId(alt, id) == IF id = RootAlias THEN alt ELSE id
get_correct_id(id) == CorrectId(alt_root_id, id)

RECURSIVE AddParents(_, _, _)
AddParents(g, ps, id) ==
    IF ps = <<>> THEN g
    ELSE AddParents(add_parent_child_relation(g, Head(ps), id), Tail(ps), id)

\* add_child_parent_relations: one relation per reported parent, root when the
\* parents field is absent
add_child_parent_relations(g, alt, entry, id) ==
    IF IsSome(entry.parents)
    THEN AddParents(g, Unwrap(entry.parents), id)
    ELSE add_parent_child_relation(g, CorrectId(alt, RootAlias), id)

\* FileData built by add_drive_entry_to_entries / add_root_entry
FileData(md) ==
    [metadata |-> md,
     changed_name |-> None,
     changed_parents |-> None,
     size |-> IF IsSome(md.size) THEN Unwrap(md.size) ELSE 0,
     kind |-> Unwrap(convert_mime_type_to_file_type(md.mime)),
     \* create_file_attr_from_metadata: 0o755 for a directory, else 0o644
     perm |-> IF convert_mime_type_to_file_type(md.mime) = Some("Directory")
              THEN 493 ELSE 420,
     uid |-> 0,
     gid |-> 0,
     flags |-> 0,
     perma |-> FALSE,
     is_local |-> FALSE]

\* a provider value st is [entries, parents, children]
add_drive_entry_to_entries(st, alt, md) ==
    IF ~IsSome(md.id) THEN st
    ELSE IF ~IsSome(convert_mime_type_to_file_type(md.mime)) THEN st
    ELSE LET id == Unwrap(md.id)
             g == add_child_parent_relations(
                      [parents |-> st.parents, children |-> st.children], alt, md, id)
         IN [entries |-> Put(st.entries, id, FileData(md)),
             parents |-> g.parents,
             children |-> g.children]

RECURSIVE AddAll(_, _, _)
AddAll(st, alt, files) ==
    IF files = <<>> THEN st
    ELSE AddAll(add_drive_entry_to_entries(st, alt, Head(files)), alt, Tail(files))

\* add_root_entry followed by the loop over list_all_files
initialize_entries ==
    /\ pstate = "new"
    /\ LET root_id == Unwrap(RootMetadata.id)
           st0 == [entries |-> Put(entries, root_id, FileData(RootMetadata)),
                   parents |-> parents, children |-> children]
           st == AddAll(st0, root_id, remoteFiles)
       IN /\ alt_root_id' = root_id
          /\ entries' = st.entries
          /\ parents' = st.parents
          /\ children' = st.children
    /\ pstate' = "listening"
    /\ UNCHANGED <<file_handles, next_fh, running_requests, tasks, cache, remote, remoteFiles,
                   downloads, uploads, resp, ghost>>
    /\ UNCHANGED <<fvars, lvars>>

\* ------------------------------------------------------------- cache files
\* the bytes a read of `size` bytes at `offset` returns: the buffer is allocated
\* zeroed with the requested length, file.read fills what the file holds
ReadBuf(content, offset, size) ==
    [i \in 1..size |-> IF offset + i <= Len(content) THEN content[offset + i] ELSE 0]

\* faulty variant of WriteAt: the seek is dropped, the data lands at the end
WriteAt_NoSeek(content, offset, data) == content \o data

\* seek(offset) + write(data): a gap between EOF and offset reads as zero
WriteAt(content, offset, data) ==
    [i \in 1..Max(Len(content), offset + Len(data)) |->
        IF i > offset /\ i <= offset + Len(data) THEN data[i - offset]
        ELSE IF i <= Len(content) THEN content[i]
        ELSE 0]

\* File::set_len
SetLen(content, size) ==
    [i \in 1..size |-> IF i <= Len(content) THEN content[i] ELSE 0]

\* the checksum the remote reports for a content
Md5(content) == <<"md5", content>>

\* ------------------------------------------------------------ handle flags
O_ACCMODE == 3
O_RDONLY == 0
O_WRONLY == 1
O_RDWR == 2
OpenFlags == {O_RDONLY, O_WRONLY, O_RDWR}

\* libc's status flags (Linux): O_RSYNC is the same word as O_SYNC
O_APPEND == 1024
O_NONBLOCK == 2048
O_DSYNC == 4096
O_SYNC == 1052672
O_RSYNC == 1052672

\* a & b and a | b on non-negative words
RECURSIVE BitAnd(_, _)
BitAnd(a, b) ==
    IF a = 0 \/ b = 0 THEN 0
    ELSE 2 * BitAnd(a \div 2, b \div 2) + (IF a % 2 = 1 /\ b % 2 = 1 THEN 1 ELSE 0)
RECURSIVE BitOr(_, _)
BitOr(a, b) ==
    IF a = 0 THEN b
    ELSE IF b = 0 THEN a
    ELSE 2 * BitOr(a \div 2, b \div 2) + (IF a % 2 = 1 \/ b % 2 = 1 THEN 1 ELSE 0)

\* faulty variant of HandleFlagsFrom: the access mode is compared without the
\* O_ACCMODE mask
HandleFlagsFrom_NoMask(value) ==
    [o_append |-> BitAnd(value, O_APPEND) # 0,
     o_dsync |-> BitAnd(value, O_DSYNC) # 0,
     o_nonblock |-> BitAnd(value, O_NONBLOCK) # 0,
     o_rsync |-> BitAnd(value, O_RSYNC) # 0,
     o_sync |-> BitAnd(value, O_SYNC) # 0,
     o_rdonly |-> value = O_RDONLY,
     o_rdwr |-> value = O_RDWR,
     o_wronly |-> value = O_WRONLY]

\* From<i32> for HandleFlags
HandleFlagsFrom(value) ==
    [o_append |-> BitAnd(value, O_APPEND) # 0,
     o_dsync |-> BitAnd(value, O_DSYNC) # 0,
     o_nonblock |-> BitAnd(value, O_NONBLOCK) # 0,
     o_rsync |-> BitAnd(value, O_RSYNC) # 0,
     o_sync |-> BitAnd(value, O_SYNC) # 0,
     o_rdonly |-> BitAnd(value, O_ACCMODE) = O_RDONLY,
     o_rdwr |-> BitAnd(value, O_ACCMODE) = O_RDWR,
     o_wronly |-> BitAnd(value, O_ACCMODE) = O_WRONLY]

\* Into<i32> for HandleFlags
HandleFlagsInto(hf) ==
    LET f1 == IF hf.o_append THEN O_APPEND ELSE 0
        f2 == IF hf.o_dsync THEN BitOr(f1, O_DSYNC) ELSE f1
        f3 == IF hf.o_nonblock THEN BitOr(f2, O_NONBLOCK) ELSE f2
        f4 == IF hf.o_rsync THEN BitOr(f3, O_RSYNC) ELSE f3
        f5 == IF hf.o_sync THEN BitOr(f4, O_SYNC) ELSE f4
        f6 == IF hf.o_rdonly THEN BitOr(f5, O_RDONLY) ELSE f5
        f7 == IF hf.o_rdwr THEN BitOr(f6, O_RDWR) ELSE f6
    IN IF hf.o_wronly THEN BitOr(f7, O_WRONLY) ELSE f7
can_write(flags) == flags.o_wronly \/ flags.o_rdwr
can_read(flags) == flags.o_rdonly \/ flags.o_rdwr

\* ------------------------------------------------------- provider plumbing
Listening == pstate = "listening"

\* send_response! / send_error_response!: one message on the reply channel
\* `to` is the id the request carries, `id` the id the handler resolved it to
Response(req, to, id, fh, off, val) ==
    [req |-> req, kind |-> req, to |-> to, id |-> id, name |-> "", fh |-> fh,
     off |-> off, val |-> val, code |-> "OK"]
ErrorResponse(req, to, id, fh, code) ==
    [req |-> req, kind |-> "Error", to |-> to, id |-> id, name |-> "", fh |-> fh,
     off |-> 0, val |-> <<>>, code |-> code]
\* two messages on one reply channel: Error(code), then r
AfterError(r, code) == [r EXCEPT !.code = code]
\* the name a Lookup or Rename request carries
Named(r, name) == [r EXCEPT !.name = name]

TaskDone(t) == t.stage \in {"ok", "err"}
Task(id, kind, stage) == [id |-> id, kind |-> kind, stage |-> stage]
\* the tasks a JoinHandle registered for the id refers to
Joined(id) ==
    IF Has(running_requests, id)
    THEN {t \in tasks : t.id = id /\ t.kind = running_requests[id]}
    ELSE {}

\* faulty variant of WaitDone: the handler does not wait
WaitDone_Skipped(id) == TRUE

\* wait_for_running_drive_request_if_exists: the handler is suspended until the
\* task registered for the id has finished
WaitDone(id) == \A t \in Joined(id) : TaskDone(t)
\* faulty variant of AfterWait: the awaited task stays in the map
AfterWait_Kept(id) == running_requests

\* ... and then removes it from the map
AfterWait(id) == IF Has(running_requests, id) THEN Del(running_requests, id)
                 ELSE running_requests
\* the awaited task is gone from the runtime
TasksAfterWait(id) == tasks \ {t \in Joined(id) : TaskDone(t)}

\* construct_path: the cache file of an id is keyed by the id; Err without entry
construct_path(id) == IF Has(entries, id) THEN Some(id) ELSE None

FileExists(path) == Has(cache, path) /\ IsSome(cache[path])
FileContent(path) == Unwrap(cache[path])

\* create_fh
NewHandle(flags, path) ==
    [flags |-> flags, file |-> FALSE, path |-> path, creating |-> FALSE,
     marked_for_open |-> TRUE, has_content_changed |-> FALSE]

\* the (id, fh) pairs the kernel sends: a live handle comes with the id it was
\* opened on
KernelPair(id, fh) ==
    Has(file_handles, fh) => file_handles[fh].path = get_correct_id(id)

\* get_and_open_file_handle: "none" without handle, "closed" when the lazy open
\* fails, "open" otherwise
OpenedState(fh) ==
    IF ~Has(file_handles, fh) THEN "none"
    ELSE IF file_handles[fh].file THEN "open"
    ELSE IF FileExists(file_handles[fh].path) THEN "open"
    ELSE "closed"

HandlesAfterOpen(fh) ==
    IF OpenedState(fh) = "open"
    THEN [file_handles EXCEPT ![fh].file = TRUE, ![fh].marked_for_open = FALSE]
    ELSE file_handles

graphUnchanged == UNCHANGED <<pstate, alt_root_id, parents, children, remoteFiles>>

\* -------------------------------------------------------- request handlers
\* faulty variant of MarkLocal: the entry is not marked
MarkLocal_Skipped(entry) == entry

\* start_download_call: marks the entry local ...
MarkLocal(entry) == [entry EXCEPT !.is_local = TRUE]
\* faulty variant of start_download_call: the spawned task is not registered
start_download_call_Unregistered(rr, file_id) == Some(rr)

\* ... and registers the spawned task; Err when a task is registered already
start_download_call(rr, file_id) ==
    IF Has(rr, file_id) THEN None
    ELSE Some(Put(rr, file_id, "download"))

\* open_file
open_file(req_id, flags) ==
    /\ Listening
    /\ next_fh < FirstFh + MaxHandles
    /\ LET file_id == get_correct_id(req_id)
           rr == AfterWait(file_id)
       IN
       /\ WaitDone(file_id)
       /\ IF ~IsSome(construct_path(file_id))
          THEN /\ resp' = ErrorResponse("OpenFile", req_id, file_id, 0, "EIO")
               /\ running_requests' = rr
               /\ tasks' = TasksAfterWait(file_id)
               /\ UNCHANGED <<entries, file_handles, next_fh>>
          ELSE IF ~entries[file_id].is_local /\ ~IsSome(start_download_call(rr, file_id))
          THEN \* start_download_call sends Error(EIO) and returns Ok(()): open_file
               \* goes on, creates the handle and sends OpenFile as a second message
               /\ entries' = [entries EXCEPT ![file_id] = MarkLocal(@)]
               /\ running_requests' = rr
               /\ tasks' = TasksAfterWait(file_id)
               /\ file_handles' = Put(file_handles, next_fh,
                                      NewHandle(HandleFlagsFrom(flags), file_id))
               /\ next_fh' = next_fh + 1
               /\ resp' = AfterError(Response("OpenFile", req_id, file_id, next_fh, 0,
                                              <<flags>>), "EIO")
          ELSE /\ IF ~entries[file_id].is_local
                  THEN /\ entries' = [entries EXCEPT ![file_id] = MarkLocal(@)]
                       /\ running_requests' = Unwrap(start_download_call(rr, file_id))
                       /\ tasks' = TasksAfterWait(file_id)
                                       \cup {Task(file_id, "download", "started")}
                  ELSE /\ running_requests' = rr
                       /\ tasks' = TasksAfterWait(file_id)
                       /\ UNCHANGED entries
               /\ file_handles' = Put(file_handles, next_fh,
                                      NewHandle(HandleFlagsFrom(flags), file_id))
               /\ next_fh' = next_fh + 1
               /\ resp' = Response("OpenFile", req_id, file_id, next_fh, 0, <<flags>>)
    /\ UNCHANGED <<cache, remote, downloads, uploads, ghost>>
    /\ graphUnchanged
    /\ UNCHANGED <<fvars, lvars>>

\* read_content + read_content_from_file
read_content(req_id, fh, offset, size) ==
    /\ Listening
    /\ KernelPair(req_id, fh)
    /\ LET file_id == get_correct_id(req_id) IN
       /\ WaitDone(file_id)
       /\ running_requests' = AfterWait(file_id)
       /\ tasks' = TasksAfterWait(file_id)
       /\ file_handles' = HandlesAfterOpen(fh)
       /\ IF OpenedState(fh) # "open"
          THEN resp' = ErrorResponse("ReadContent", req_id, file_id, fh, "EIO")
          ELSE IF ~can_read(file_handles[fh].flags)
          THEN resp' = ErrorResponse("ReadContent", req_id, file_id, fh, "EIO")
          ELSE resp' = Response("ReadContent", req_id, file_id, fh, offset,
                                ReadBuf(FileContent(file_handles[fh].path), offset, size))
    /\ UNCHANGED <<entries, next_fh, cache, remote, downloads, uploads, ghost>>
    /\ graphUnchanged
    /\ UNCHANGED <<fvars, lvars>>

\* write_content + write_content_from_file
write_content(req_id, fh, offset, data) ==
    /\ Listening
    /\ LET file_id == get_correct_id(req_id) IN
       /\ WaitDone(file_id)
       /\ running_requests' = AfterWait(file_id)
       /\ tasks' = TasksAfterWait(file_id)
       /\ IF OpenedState(fh) # "open"
          THEN /\ resp' = ErrorResponse("WriteContent", req_id, file_id, fh, "EIO")
               /\ file_handles' = HandlesAfterOpen(fh)
               /\ UNCHANGED <<entries, cache, ghost>>
          ELSE IF ~can_write(file_handles[fh].flags)
          THEN /\ resp' = ErrorResponse("WriteContent", req_id, file_id, fh, "EIO")
               /\ file_handles' = HandlesAfterOpen(fh)
               /\ UNCHANGED <<entries, cache, ghost>>
          ELSE LET path == file_handles[fh].path
                   size_written == Len(data)
               IN /\ cache' = [cache EXCEPT
                                 ![path] = Some(WriteAt(FileContent(path), offset, data))]
                  /\ file_handles' = [HandlesAfterOpen(fh) EXCEPT
                                        ![fh].has_content_changed = TRUE]
                  /\ IF ~Has(entries, file_id)
                     THEN /\ resp' = ErrorResponse("WriteContent", req_id, file_id, fh, "EIO")
                          /\ UNCHANGED <<entries, ghost>>
                     ELSE /\ entries[file_id].size + size_written <= MaxSize
                          /\ entries' = [entries EXCEPT
                                           ![file_id].size = @ + size_written]
                          /\ resp' = Response("WriteContent", req_id, file_id, fh, offset,
                                              <<size_written>>)
                          /\ ghost' = [wrote |-> ghost.wrote \cup {fh},
                                       lastWrite |-> [ghost.lastWrite EXCEPT ![path] =
                                           Some([off |-> offset,
                                                 data |-> SubSeq(data, 1, size_written)])],
                                       resized |-> ghost.resized]
    /\ UNCHANGED <<next_fh, remote, downloads, uploads>>
    /\ graphUnchanged
    /\ UNCHANGED <<fvars, lvars>>

\* set_underlying_file_size: through the opened file of the handle when that
\* works, else through the path; "err" when neither can set the length
SetSizeVia(file_id, fh, size) ==
    IF /\ IsSome(fh)
       /\ Has(file_handles, Unwrap(fh))
       /\ file_handles[Unwrap(fh)].file
       /\ can_write(file_handles[Unwrap(fh)].flags)
    THEN Some(file_handles[Unwrap(fh)].path)
    ELSE IF IsSome(construct_path(file_id)) /\ FileExists(Unwrap(construct_path(file_id)))
    THEN construct_path(file_id)
    ELSE None

NameOr(md, default) == IF IsSome(md.name) THEN Unwrap(md.name) ELSE default

\* create_file_metadata_from_entry: the attributes of the entry, its id and
\* its name, where the staged name wins over metadata.name
create_file_metadata_from_entry(entry) ==
    [id |-> Unwrap(entry.metadata.id),
     name |-> IF IsSome(entry.changed_name) THEN Unwrap(entry.changed_name)
              ELSE NameOr(entry.metadata, "NO_NAME"),
     size |-> entry.size,
     kind |-> entry.kind,
     perm |-> entry.perm,
     uid |-> entry.uid,
     gid |-> entry.gid,
     flags |-> entry.flags]

\* set_attr: the size goes to the cache file and to attr.size, flags to
\* attr.flags, mode (cast to u16) to attr.perm; uid and gid are only logged
set_attr(req_id, size, fh, mode, flags, uid, gid) ==
    /\ Listening
    /\ IsSome(fh) => KernelPair(req_id, Unwrap(fh))
    /\ LET file_id == get_correct_id(req_id)
           fhv == IF IsSome(fh) THEN Unwrap(fh) ELSE 0
           attr == [entries[file_id] EXCEPT
                      !.size = IF IsSome(size) THEN Unwrap(size) ELSE @,
                      !.flags = IF IsSome(flags) THEN Unwrap(flags) ELSE @,
                      !.perm = IF IsSome(mode) THEN Unwrap(mode) % 65536 ELSE @]
       IN
       /\ WaitDone(file_id)
       /\ running_requests' = AfterWait(file_id)
       /\ tasks' = TasksAfterWait(file_id)
       /\ IF ~Has(entries, file_id)
          THEN /\ resp' = ErrorResponse("SetAttr", req_id, file_id, fhv, "ENOENT")
               /\ UNCHANGED <<entries, cache, ghost>>
          ELSE IF IsSome(size) /\ ~IsSome(SetSizeVia(file_id, fh, Unwrap(size)))
          THEN /\ resp' = ErrorResponse("SetAttr", req_id, file_id, fhv, "EIO")
               /\ UNCHANGED <<entries, cache, ghost>>
          ELSE /\ IF IsSome(size)
                  THEN LET path == Unwrap(SetSizeVia(file_id, fh, Unwrap(size)))
                       IN /\ cache' = [cache EXCEPT
                                         ![path] = Some(SetLen(FileContent(path),
                                                               Unwrap(size)))]
                          /\ ghost' = [ghost EXCEPT
                                 !.lastWrite[path] = None,
                                 !.resized = IF SetLen(FileContent(path), Unwrap(size))
                                                   = FileContent(path)
                                             THEN @
                                             ELSE @ \cup {h \in DOMAIN file_handles :
                                                             file_handles[h].path = path}]
                  ELSE UNCHANGED <<cache, ghost>>
               /\ entries' = [entries EXCEPT ![file_id] = attr]
               /\ resp' = Response("SetAttr", req_id, file_id, fhv, 0,
                                   Some(create_file_metadata_from_entry(attr)))
    /\ UNCHANGED <<file_handles, next_fh, remote, downloads, uploads>>
    /\ graphUnchanged
    /\ UNCHANGED <<fvars, lvars>>

\* faulty variant of IsDirty: every release uploads
IsDirty_Always(handle) == TRUE

\* the dirty flag release_file tests
IsDirty(handle) == handle.has_content_changed

\* remove_volatile_metadata: size and the other read-only fields are cleared,
\* parents are kept
remove_volatile_metadata(md) == [md EXCEPT !.size = None]

prepare_changed_metadata_for_upload(id, md) ==
    remove_volatile_metadata([md EXCEPT !.id = Some(id)])

\* the metadata start_upload_call hands to upload_file_content_from_path: the
\* staged changes of the entry, prepared, with the mime type of the entry
UploadMetadata(id, entry) ==
    LET changed_metadata == [id |-> None, name |-> entry.changed_name,
                             parents |-> entry.changed_parents,
                             mime |-> None, size |-> None]
    IN [prepare_changed_metadata_for_upload(id, changed_metadata)
          EXCEPT !.mime = Some(entry.metadata.mime)]

\* start_upload_call: Err when a task is registered or the entry is missing
start_upload_call(rr, id) ==
    IF Has(rr, id) THEN None
    ELSE IF ~Has(entries, id) THEN None
    ELSE Some(Put(rr, id, "upload"))

\* release_file
release_file(req_id, fh) ==
    /\ Listening
    /\ KernelPair(req_id, fh)
    /\ LET file_id == get_correct_id(req_id)
           rr == AfterWait(file_id)
       IN
       /\ WaitDone(file_id)
       /\ IF ~Has(file_handles, fh)
          THEN /\ resp' = ErrorResponse("ReleaseFile", req_id, file_id, fh, "EIO")
               /\ running_requests' = rr
               /\ tasks' = TasksAfterWait(file_id)
               /\ UNCHANGED <<file_handles, uploads, ghost>>
          ELSE /\ file_handles' = Del(file_handles, fh)
               /\ ghost' = [ghost EXCEPT !.wrote = @ \ {fh}, !.resized = @ \ {fh}]
               /\ IF ~IsDirty(file_handles[fh])
                  THEN /\ running_requests' = rr
                       /\ tasks' = TasksAfterWait(file_id)
                       /\ resp' = Response("ReleaseFile", req_id, file_id, fh, 0, <<>>)
                       /\ UNCHANGED uploads
                  ELSE IF ~IsSome(start_upload_call(rr, file_id))
                  THEN /\ running_requests' = rr
                       /\ tasks' = TasksAfterWait(file_id)
                       /\ resp' = ErrorResponse("ReleaseFile", req_id, file_id, fh, "EIO")
                       /\ UNCHANGED uploads
                  ELSE /\ running_requests' = Unwrap(start_upload_call(rr, file_id))
                       /\ tasks' = TasksAfterWait(file_id)
                                       \cup {Task(file_id, "upload", "started")}
                       /\ uploads' = [uploads EXCEPT ![file_id] = @ + 1]
                       /\ resp' = Response("ReleaseFile", req_id, file_id, fh, 0, <<>>)
    /\ UNCHANGED <<entries, next_fh, cache, remote, downloads>>
    /\ graphUnchanged
    /\ UNCHANGED <<fvars, lvars>>

\* --------------------------------------------------------- background tasks
ioUnchanged == UNCHANGED <<entries, file_handles, next_fh, resp, ghost>>

Running(id, kind, stage) == Task(id, kind, stage) \in tasks

SetStage(id, kind, from, to) ==
    (tasks \ {Task(id, kind, from)}) \cup {Task(id, kind, to)}

\* download_file_by_id: the GET of the content has answered and
\* write_body_to_file has created (truncated) the target file
DownloadCreate(id) ==
    /\ Running(id, "download", "started")
    /\ downloads' = [downloads EXCEPT ![id] = @ + 1]
    /\ cache' = [cache EXCEPT ![id] = Some(<<>>)]
    /\ tasks' = SetStage(id, "download", "started", "created")
    /\ UNCHANGED <<running_requests, remote, uploads>>
    /\ ioUnchanged /\ graphUnchanged /\ UNCHANGED <<fvars, lvars>>

\* write_body_to_file: one chunk of the body is written
DownloadChunk(id) ==
    /\ Running(id, "download", "created")
    /\ FileExists(id)
    /\ Len(FileContent(id)) < Len(remote[id])
    /\ cache' = [cache EXCEPT
                   ![id] = Some(Append(FileContent(id), remote[id][Len(FileContent(id)) + 1]))]
    /\ UNCHANGED <<running_requests, tasks, remote, downloads, uploads>>
    /\ ioUnchanged /\ graphUnchanged /\ UNCHANGED <<fvars, lvars>>

\* the body is complete and the metadata GET has answered: the task returns Ok
DownloadFinish(id) ==
    /\ Running(id, "download", "created")
    /\ FileExists(id)
    /\ Len(FileContent(id)) >= Len(remote[id])
    /\ tasks' = SetStage(id, "download", "created", "ok")
    /\ UNCHANGED <<running_requests, cache, remote, downloads, uploads>>
    /\ ioUnchanged /\ graphUnchanged /\ UNCHANGED <<fvars, lvars>>

\* update_file_content_on_drive_from_path: opens the cache file and streams it
\* to the remote
UploadRun(id) ==
    /\ Running(id, "upload", "started")
    /\ IF FileExists(id)
       THEN /\ remote' = [remote EXCEPT ![id] = FileContent(id)]
            /\ tasks' = SetStage(id, "upload", "started", "ok")
       ELSE /\ tasks' = SetStage(id, "upload", "started", "err")
            /\ UNCHANGED remote
    /\ UNCHANGED <<running_requests, cache, downloads, uploads>>
    /\ ioUnchanged /\ graphUnchanged /\ UNCHANGED <<fvars, lvars>>

\* a remote call of the task fails: the task returns Err, what it has written
\* so far stays
TaskFail(id) ==
    /\ \E t \in tasks :
          /\ t.id = id
          /\ ~TaskDone(t)
          /\ tasks' = SetStage(id, t.kind, t.stage, "err")
    /\ UNCHANGED <<running_requests, cache, remote, downloads, uploads>>
    /\ ioUnchanged /\ graphUnchanged /\ UNCHANGED <<fvars, lvars>>

\* ------------------------------------------------------ directory handlers
ioIdle ==
    UNCHANGED <<file_handles, next_fh, cache, remote, remoteFiles, downloads, uploads, ghost>>

\* str::eq_ignore_ascii_case on the names of the universe
ToAsciiLower(name) == IF name = "F" THEN "f" ELSE name
\* faulty variant of eq_ignore_ascii_case: the names are compared as they are
eq_ignore_ascii_case_Exact(a, b) == a = b
eq_ignore_ascii_case(a, b) == ToAsciiLower(a) = ToAsciiLower(b)

\* find_first_child_by_name: the id of the first child of parent_id, in the
\* order of children[parent_id], that has an entry and whose metadata.name
\* matches; None without such a child
find_first_child_by_name(name, parent_id) ==
    LET cs == IF Has(children, parent_id) THEN children[parent_id] ELSE <<>>
        hits == {i \in 1..Len(cs) :
                    /\ Has(entries, cs[i])
                    /\ eq_ignore_ascii_case(NameOr(entries[cs[i]].metadata, "$'\\NO_NAME"),
                                            name)}
    IN IF hits = {} THEN None
       ELSE Some(cs[CHOOSE i \in hits : \A j \in hits : i <= j])

check_id_exists(id) == Has(entries, id)
does_target_name_exist_under_parent(new_parent, new_name) ==
    IsSome(find_first_child_by_name(new_name, new_parent))

\* the ProviderResponse::Lookup the lookup handler sends
lookup_response(parent, name) ==
    LET parent_id == get_correct_id(parent)
        result == find_first_child_by_name(name, parent_id)
    IN Named(Response("Lookup", parent, parent_id, 0, 0,
                      IF IsSome(result)
                      THEN Some(create_file_metadata_from_entry(entries[Unwrap(result)]))
                      ELSE None),
             name)

lookup(parent, name) ==
    /\ Listening
    /\ resp' = lookup_response(parent, name)
    /\ UNCHANGED <<entries, running_requests, tasks>>
    /\ ioIdle /\ graphUnchanged /\ UNCHANGED <<fvars, lvars>>

\* the ProviderResponse::ReadDir the read_dir handler sends: the children that
\* have an entry, in the order of children[parent_id], without the first
\* `offset` ones
read_dir_response(req_id, offset) ==
    LET parent_id == get_correct_id(req_id)
        Known(id) == Has(entries, id)
        listed == IF Has(children, parent_id)
                  THEN SelectSeq(children[parent_id], Known) ELSE <<>>
        metas == [i \in 1..Len(listed) |->
                     [id |-> listed[i],
                      name |-> NameOr(entries[listed[i]].metadata, "NO_NAME"),
                      size |-> entries[listed[i]].size,
                      kind |-> entries[listed[i]].kind]]
    IN Response("ReadDir", req_id, parent_id, 0, offset,
                IF offset >= Len(metas) THEN <<>>
                ELSE SubSeq(metas, offset + 1, Len(metas)))

read_dir(req_id, offset) ==
    /\ Listening
    /\ resp' = read_dir_response(req_id, offset)
    /\ UNCHANGED <<entries, running_requests, tasks>>
    /\ ioIdle /\ graphUnchanged /\ UNCHANGED <<fvars, lvars>>

metadata(req_id) ==
    /\ Listening
    /\ LET file_id == get_correct_id(req_id) IN
       IF ~Has(entries, file_id)
       THEN resp' = ErrorResponse("Metadata", req_id, file_id, 0, "ENOENT")
       ELSE resp' = Response("Metadata", req_id, file_id, 0, 0,
                             Some(create_file_metadata_from_entry(entries[file_id])))
    /\ UNCHANGED <<entries, running_requests, tasks>>
    /\ ioIdle /\ graphUnchanged /\ UNCHANGED <<fvars, lvars>>

\* update_remote_metadata: Err without entry; otherwise the call of
\* update_file_metadata_on_drive is built and its value dropped (no await, no
\* look at a Result): the remote is not contacted and Ok is returned
update_remote_metadata(es, id) == IF Has(es, id) THEN "Ok" ELSE "Err"

\* rename + rename_inner
rename(original_parent_req, original_name, new_parent_req, new_name) ==
    /\ Listening
    /\ LET original_parent == get_correct_id(original_parent_req)
           new_parent == get_correct_id(new_parent_req)
           file_entry == find_first_child_by_name(original_name, original_parent)
           \* val keeps the target the request names, also in an error answer
           Err(code) == [Named(ErrorResponse("Rename", original_parent_req,
                                             original_parent, 0, code), original_name)
                           EXCEPT !.val = <<new_parent, new_name>>]
       IN IF ~IsSome(file_entry)
          THEN /\ resp' = Err("ENOENT")
               /\ UNCHANGED <<entries, parents, children, running_requests, tasks>>
          ELSE LET file_id == Unwrap(file_entry) IN
               /\ WaitDone(file_id)
               /\ running_requests' = AfterWait(file_id)
               /\ tasks' = TasksAfterWait(file_id)
               /\ IF check_id_exists(new_parent)
                  THEN /\ resp' = Err("ENOENT")
                       /\ UNCHANGED <<entries, parents, children>>
                  ELSE IF does_target_name_exist_under_parent(new_parent, new_name)
                  THEN /\ resp' = Err("EADDRINUSE")
                       /\ UNCHANGED <<entries, parents, children>>
                  ELSE LET g0 == [parents |-> parents, children |-> children]
                           g == IF original_parent # new_parent
                                THEN add_parent_child_relation(
                                         remove_parent_child_relation(
                                             g0, original_parent, file_id),
                                         new_parent, file_id)
                                ELSE g0
                       IN /\ entries' =
                               [entries EXCEPT
                                  ![file_id].changed_name =
                                      IF original_name # new_name
                                      THEN Some(new_name) ELSE @,
                                  ![file_id].changed_parents =
                                      IF original_parent # new_parent
                                      THEN Some(<<new_parent>>) ELSE @]
                          /\ parents' = g.parents
                          /\ children' = g.children
                          /\ resp' =
                               IF update_remote_metadata(entries', file_id) = "Ok"
                               THEN Named(Response("Rename", original_parent_req,
                                                   original_parent, 0, 0,
                                                   <<new_parent, new_name>>),
                                          original_name)
                               ELSE Err("EREMOTEIO")
    /\ ioIdle
    /\ UNCHANGED <<pstate, alt_root_id>>
    /\ UNCHANGED <<fvars, lvars>>

\* ------------------------------------------------------------- change feed
\* process_file_change: size, name; a parents field is only logged
process_file_change(entry, change) ==
    [entry EXCEPT
       !.metadata.size = IF IsSome(change.size) THEN change.size ELSE @,
       !.size = IF IsSome(change.size) THEN Unwrap(change.size) ELSE @,
       !.metadata.name = IF IsSome(change.name) THEN change.name ELSE @]

\* check_and_apply_changes with one change in the feed; process_change panics
\* (todo!) on a removal, a drive change and an id without entry
check_and_apply_changes(change) ==
    /\ Listening
    /\ LET id == get_correct_id(change.id) IN
       IF Has(entries, id) /\ change.kind = "File"
       THEN /\ entries' = [entries EXCEPT ![id] = process_file_change(@, change)]
            /\ UNCHANGED pstate
       ELSE /\ pstate' = "panicked"
            /\ UNCHANGED entries
    /\ UNCHANGED <<alt_root_id, parents, children, running_requests, tasks, resp>>
    /\ ioIdle
    /\ UNCHANGED <<fvars, lvars>>

\* ------------------------------------------------------------ FUSE adapter
\* BiMap::insert: pairs that hold the inode or the id are overwritten
BiInsert(m, ino, id) == {p \in m : p[1] # ino /\ p[2] # id} \cup {<<ino, id>>}
get_by_left(m, ino) ==
    LET hits == {p \in m : p[1] = ino}
    IN IF hits = {} THEN None ELSE Some((CHOOSE p \in hits : TRUE)[2])
get_by_right(m, id) ==
    LET hits == {p \in m : p[2] = id}
    IN IF hits = {} THEN None ELSE Some((CHOOSE p \in hits : TRUE)[1])

\* faulty variant of generate_ino: next_ino is not advanced
generate_ino_Stuck(n) == [ino |-> n, next_ino |-> n]

generate_ino(n) == [ino |-> n, next_ino |-> n + 1]

\* an adapter value fs is [entry_ids, next_ino, allocated, ino], ino being the
\* inode the last call returned
add_id(fs, id) ==
    LET gen == generate_ino(fs.next_ino)
    IN [entry_ids |-> BiInsert(fs.entry_ids, gen.ino, id),
        next_ino |-> gen.next_ino,
        allocated |-> Append(fs.allocated, gen.ino),
        ino |-> gen.ino]

get_ino_from_id(fs, id) ==
    LET x == get_by_right(fs.entry_ids, id)
    IN IF IsSome(x) THEN [fs EXCEPT !.ino = Unwrap(x)] ELSE add_id(fs, id)

RECURSIVE InoForEach(_, _)
InoForEach(fs, ids) ==
    IF ids = <<>> THEN fs
    ELSE InoForEach(get_ino_from_id(fs, Head(ids)), Tail(ids))

Adapter ==
    [entry_ids |-> entry_ids, next_ino |-> next_ino, allocated |-> allocated, ino |-> 0]
Mounted == fstate = "mounted"

\* Filesystem::init
init ==
    /\ fstate = "new"
    /\ fstate' = "mounted"
    /\ entry_ids' = BiInsert(entry_ids, FuseRootIno, RootAlias)
    /\ UNCHANGED <<next_ino, allocated, enum>>
    /\ UNCHANGED <<pvars, lvars>>

\* Filesystem::lookup: the Lookup request is sent to the provider and the
\* adapter waits for the answer
fuse_lookup(parent, name) ==
    /\ Mounted /\ Listening
    /\ LET parent_id == get_by_left(entry_ids, parent) IN
       IF ~IsSome(parent_id)
       THEN UNCHANGED <<resp, entry_ids, next_ino, allocated>>
       ELSE /\ resp' = lookup_response(Unwrap(parent_id), name)
            /\ LET fs == IF IsSome(resp'.val)
                         THEN get_ino_from_id(Adapter, Unwrap(resp'.val).id)
                         ELSE Adapter
               IN /\ entry_ids' = fs.entry_ids
                  /\ next_ino' = fs.next_ino
                  /\ allocated' = fs.allocated
    /\ UNCHANGED <<fstate, enum>>
    /\ UNCHANGED lvars
    /\ UNCHANGED <<entries, running_requests, tasks>>
    /\ ioIdle /\ graphUnchanged

\* Filesystem::readdir into a kernel buffer that holds `capacity` entries:
\* reply.add reports full for the first entry that does not fit, which is then
\* not part of the reply. enum follows the kernel: it starts an enumeration at
\* offset 0 and resumes at the offset of the last entry it received.
readdir(ino, offset, capacity) ==
    /\ Mounted /\ Listening
    /\ LET drive_id == get_by_left(entry_ids, ino) IN
       IF ~IsSome(drive_id)
       THEN UNCHANGED <<resp, entry_ids, next_ino, allocated, enum>>
       ELSE /\ resp' = read_dir_response(Unwrap(drive_id), offset)
            /\ LET response == resp'.val
                   accepted == Min(Len(response), capacity)
                   touched == Min(Len(response), capacity + 1)
                   After(n) == InoForEach(Adapter, [i \in 1..n |-> response[i].id])
                   fs == After(touched)
                   reply == [counter \in 1..accepted |->
                                [ino |-> After(counter).ino,
                                 offset |-> counter,
                                 id |-> response[counter].id]]
                   ids == [i \in 1..accepted |-> reply[i].id]
               IN /\ entry_ids' = fs.entry_ids
                  /\ next_ino' = fs.next_ino
                  /\ allocated' = fs.allocated
                  /\ enum' =
                       [dir |-> ino,
                        capacity |-> capacity,
                        offset |-> IF accepted > 0 THEN reply[accepted].offset
                                   ELSE offset,
                        emitted |-> IF offset = 0 THEN ids ELSE enum.emitted \o ids,
                        calls |-> IF offset = 0 THEN 1 ELSE enum.calls + 1,
                        done |-> accepted = 0]
    /\ UNCHANGED fstate
    /\ UNCHANGED lvars
    /\ UNCHANGED <<entries, running_requests, tasks>>
    /\ ioIdle /\ graphUnchanged

\* -------------------------------------------------------- upload scheduler
\* DriveFileUploader (src/fs/drive/file_uploader.rs). uploader is
\*   [state, receiver, held, running_uploads, tasks, now, sent, uploaded]:
\*   state is "listening", "waiting" (inside cancel_and_wait_for_running_
\*   upload_for_id, with the command in `held`) or "stopped"; receiver is the
\*   command channel (capacity 1); running_uploads maps an id to the serial of
\*   its registered task; tasks are the spawned upload_file tasks; now is the
\*   clock; sent records per id when its UploadChange commands entered the
\*   channel; uploaded records the remote uploads in the order they started.
UploadIds == {"F", "G", "B"}
\* the ids whose cache path the upload filter matches
UploadFilter == {"B"}

\* FileUploaderCommand; drive_id is the id schedule_upload puts into the
\* metadata, serial counts the UploadChange commands of the id
UploaderCommand(kind, drive_id, serial) ==
    [kind |-> kind, drive_id |-> drive_id, serial |-> serial]
UploaderKinds == {"UploadChange", "CreateFile", "Stop"}

UploadTask(id, serial, stage, remaining, cancel) ==
    [id |-> id, serial |-> serial, stage |-> stage, remaining |-> remaining,
     cancel |-> cancel]
UploadTaskDone(t) == t.stage = "done"
\* the task registered for the id
RegisteredUpload(id) ==
    {t \in uploader.tasks : t.id = id /\ t.serial = uploader.running_uploads[id]}

uploaderIdle ==
    UNCHANGED <<pvars, fvars, legacy, inflight, poller, vec>>

\* Sender::send of schedule_upload (or of destroy, for Stop): the command
\* enters the channel when it has room
send_command(kind, drive_id) ==
    /\ Len(uploader.receiver) < 1
    /\ LET counted == kind = "UploadChange" /\ IsSome(drive_id)
           id == Unwrap(drive_id)
           serial == IF counted THEN Len(uploader.sent[id]) + 1 ELSE 0
       IN uploader' =
            [uploader EXCEPT
               !.receiver = Append(@, UploaderCommand(kind, drive_id, serial)),
               !.sent = IF counted THEN [@ EXCEPT ![id] = Append(@, uploader.now)]
                        ELSE @]
    /\ uploaderIdle

\* tokio::spawn of upload_file and running_uploads.insert
SpawnUpload(u, id, serial) ==
    [u EXCEPT
       !.tasks = @ \cup {UploadTask(id, serial, "sleeping", DebounceTicks, FALSE)},
       !.running_uploads = Put(@, id, serial)]

\* faulty variant of UploadJoined: the scheduler does not wait for the task
UploadJoined_NoWait(id) == TRUE

\* tokio::join! on the handle of the registered task has returned
UploadJoined(id) == \A t \in RegisteredUpload(id) : UploadTaskDone(t)

\* one iteration of listen, up to the point where it waits for a task
listen ==
    /\ uploader.state = "listening"
    /\ uploader.receiver # <<>>
    /\ LET command == Head(uploader.receiver)
           u == [uploader EXCEPT !.receiver = Tail(@)]
       IN IF command.kind = "Stop"
          THEN uploader' = [u EXCEPT !.state = "stopped"]
          ELSE IF command.kind # "UploadChange"
          THEN uploader' = u
          ELSE IF IsSome(command.drive_id) /\ Unwrap(command.drive_id) \in UploadFilter
          THEN uploader' = u
          ELSE IF ~IsSome(command.drive_id)
          THEN uploader' = u
          ELSE LET id == Unwrap(command.drive_id) IN
               IF Has(uploader.running_uploads, id)
               THEN \* stop_sender.send: the signal reaches a task that still
                    \* holds its receiver, i.e. one that is sleeping
                    uploader' =
                      [u EXCEPT
                         !.state = "waiting",
                         !.held = Some(command),
                         !.tasks = {IF t \in RegisteredUpload(id) /\ t.stage = "sleeping"
                                    THEN [t EXCEPT !.cancel = TRUE] ELSE t : t \in @}]
               ELSE uploader' = SpawnUpload(u, id, command.serial)
    /\ uploaderIdle

\* cancel_and_wait_for_running_upload_for_id returns: the awaited task is
\* removed, the new one is spawned and registered
cancel_and_wait_for_running_upload_for_id ==
    /\ uploader.state = "waiting"
    /\ LET command == Unwrap(uploader.held)
           id == Unwrap(command.drive_id)
       IN /\ UploadJoined(id)
          /\ uploader' =
               SpawnUpload([uploader EXCEPT
                              !.state = "listening",
                              !.held = None,
                              !.tasks = @ \ {t \in RegisteredUpload(id) : UploadTaskDone(t)},
                              !.running_uploads = Del(@, id)],
                           id, command.serial)
    /\ uploaderIdle

\* upload_file, select! branch of wait_for_cancel_signal: the task returns
upload_file_cancelled(id, serial) ==
    /\ \E t \in uploader.tasks :
          /\ t.id = id /\ t.serial = serial
          /\ t.stage = "sleeping" /\ t.cancel
          /\ uploader' = [uploader EXCEPT
                            !.tasks = (@ \ {t}) \cup {[t EXCEPT !.stage = "done"]}]
    /\ uploaderIdle

\* upload_file, select! branch of sleep: the remote upload starts
upload_file_slept(id, serial) ==
    /\ \E t \in uploader.tasks :
          /\ t.id = id /\ t.serial = serial
          /\ t.stage = "sleeping" /\ t.remaining = 0
          /\ uploader' = [uploader EXCEPT
                            !.tasks = (@ \ {t}) \cup {[t EXCEPT !.stage = "uploading"]},
                            !.uploaded = Append(@, [id |-> id, serial |-> serial])]
    /\ uploaderIdle

\* upload_file_ returns, with Ok or Err
upload_file_(id, serial) ==
    /\ \E t \in uploader.tasks :
          /\ t.id = id /\ t.serial = serial
          /\ t.stage = "uploading"
          /\ uploader' = [uploader EXCEPT
                            !.tasks = (@ \ {t}) \cup {[t EXCEPT !.stage = "done"]}]
    /\ uploaderIdle

\* the clock advances by one tick. What is ready runs before the clock moves
\* on: a task whose sleep has elapsed or whose cancel signal has arrived, and
\* the scheduler when it is idle with a command in the channel or when the
\* task it waits for has finished. A running upload takes any time.
Tick ==
    /\ uploader.now < MaxTime
    /\ \A t \in uploader.tasks :
          t.stage = "sleeping" => (t.remaining > 0 /\ ~t.cancel)
    /\ ~(uploader.state = "listening" /\ uploader.receiver # <<>>)
    /\ ~(uploader.state = "waiting"
           /\ UploadJoined(Unwrap(Unwrap(uploader.held).drive_id)))
    /\ uploader' = [uploader EXCEPT
                      !.now = @ + 1,
                      !.tasks = {IF t.stage = "sleeping"
                                 THEN [t EXCEPT !.remaining = @ - 1] ELSE t : t \in @}]
    /\ uploaderIdle

\* ------------------------------------------------ write-through filesystem
\* DriveFilesystem (src/fs/drive/filesystem.rs), one file. legacy is
\*   [entry, file, remote, compared, last]: entry is the DriveEntry with its
\*   md5_checksum (the cache checksum), local_md5_checksum and
\*   has_upstream_content_changes; file is the checksum of the cache file on
\*   disk (None when there is none); remote is the md5 checksum the remote
\*   reports for the file; compared records the arguments and the result of
\*   the last compare_checksums; last is "write" after a local write and the
\*   result of the comparison after update_entry_metadata.
Sums == {"s1", "s2", "s3"}
OptSums == {None} \cup {Some(h) : h \in Sums}

\* faulty variant of compare_checksums: the conflict test is missing
compare_checksums_NoConflict(md5_checksum, entry) ==
    IF ~IsSome(md5_checksum) THEN "Missing"
    ELSE IF md5_checksum = entry.local_md5_checksum /\ md5_checksum = entry.md5_checksum
    THEN "Match"
    ELSE IF md5_checksum = entry.md5_checksum THEN "LocalMismatch"
    ELSE IF md5_checksum = entry.local_md5_checksum THEN "CacheMismatch"
    ELSE IF entry.local_md5_checksum = entry.md5_checksum THEN "RemoteMismatch"
    ELSE "Unknown"

\* compare_checksums: the tests in the order of the source
compare_checksums(md5_checksum, entry) ==
    IF ~IsSome(md5_checksum) THEN "Missing"
    ELSE IF md5_checksum = entry.local_md5_checksum /\ md5_checksum = entry.md5_checksum
    THEN "Match"
    ELSE IF /\ md5_checksum # entry.local_md5_checksum
            /\ md5_checksum # entry.md5_checksum
            /\ entry.local_md5_checksum # entry.md5_checksum
    THEN "Conflict"
    ELSE IF md5_checksum = entry.md5_checksum THEN "LocalMismatch"
    ELSE IF md5_checksum = entry.local_md5_checksum THEN "CacheMismatch"
    ELSE IF entry.local_md5_checksum = entry.md5_checksum THEN "RemoteMismatch"
    ELSE "Unknown"

\* DriveEntry::set_md5_checksum
set_md5_checksum(entry, md5_checksum) ==
    [entry EXCEPT !.md5_checksum = md5_checksum, !.local_md5_checksum = md5_checksum]

\* update_entry_metadata, the part on the checksums; input is the answer of
\* the user when a conflict is reported
update_entry_metadata(md5_checksum, entry, input) ==
    LET checksum_mismatch == compare_checksums(md5_checksum, entry) IN
    IF checksum_mismatch \in {"Missing", "Unknown", "RemoteMismatch"}
    THEN [set_md5_checksum(entry, md5_checksum)
            EXCEPT !.has_upstream_content_changes = TRUE]
    ELSE IF checksum_mismatch = "Conflict"
    THEN [entry EXCEPT !.has_upstream_content_changes = (input = "1")]
    ELSE [entry EXCEPT !.has_upstream_content_changes = FALSE]

legacyIdle ==
    UNCHANGED <<pvars, fvars, uploader, inflight, poller, vec>>

\* the arguments and the result of a compare_checksums
Compared(md5_checksum, entry) ==
    [r |-> md5_checksum, l |-> entry.local_md5_checksum, c |-> entry.md5_checksum,
     result |-> compare_checksums(md5_checksum, entry)]

\* update_entry_metadata_cache_if_needed: the change feed reports the file
\* with the checksum the remote holds
update_entry_metadata_cache_if_needed(input) ==
    /\ legacy' = [legacy EXCEPT
                    !.entry = update_entry_metadata(legacy.remote, legacy.entry, input),
                    !.compared = Some(Compared(legacy.remote, legacy.entry)),
                    !.last = compare_checksums(legacy.remote, legacy.entry)]
    /\ legacyIdle

\* download_file_to_cache, called by update_cache_if_needed for an entry with
\* upstream changes: the metadata returned by the download is applied
download_file_to_cache(input) ==
    /\ legacy.entry.has_upstream_content_changes
    /\ LET downloaded == [legacy EXCEPT !.file = legacy.remote] IN
       legacy' = [downloaded EXCEPT
                    !.entry = update_entry_metadata(legacy.remote, legacy.entry, input),
                    !.compared = Some(Compared(legacy.remote, legacy.entry)),
                    !.last = compare_checksums(legacy.remote, legacy.entry)]
    /\ legacyIdle

\* write: the data is written to the cache file and compute_md5_checksum of
\* the file becomes the local checksum (None when the file cannot be read)
write(sum) ==
    /\ legacy' = [legacy EXCEPT !.entry.local_md5_checksum = sum, !.file = sum,
                                !.last = "write"]
    /\ legacyIdle

\* the upload scheduled by write has finished: the remote holds the file
upload_finished ==
    /\ legacy.last = "write"
    /\ IsSome(legacy.file)
    /\ legacy' = [legacy EXCEPT !.remote = legacy.file,
                                !.last = "uploaded"]
    /\ legacyIdle

\* somebody else changes the file on the remote
remote_edit(sum) ==
    /\ sum # legacy.remote
    /\ legacy' = [legacy EXCEPT !.remote = sum]
    /\ legacyIdle

\* ------------------------------------------------------- request transport
\* the adapter threads, one upcall each
Calls == 1..MaxCalls

\* no message on the reply channel of the request in hand
NoResponse ==
    [req |-> "None", kind |-> "None", to |-> RootAlias, id |-> RootAlias,
     name |-> "", fh |-> 0, off |-> 0, val |-> <<>>, code |-> "OK"]

\* an upcall: idle, sending (blocking_send), queued in the request channel,
\* handling (taken by rx.recv), replied (the kernel has its reply)
NewCall == [state |-> "idle", request |-> None, responses |-> 0, replies |-> 0,
            reply |-> None]

ProviderRequest(kind, id, flags) == [kind |-> kind, id |-> id, flags |-> flags]

\* listen owns the Receiver of the request channel: it is dropped, with the
\* requests it buffers and the request in hand, when the select! of listen
\* completes or the task unwinds
ReceiverAlive == pstate \in {"new", "listening"}

\* the messages a handler has put on the reply channel of the request in hand
ResponsesSent(r) ==
    IF r = NoResponse THEN 0
    ELSE IF r.kind # "Error" /\ r.code # "OK" THEN 2
    ELSE 1

transportIdle ==
    UNCHANGED <<pvars, fvars, uploader, legacy, poller, vec>>

\* an upcall builds its request with a fresh reply channel; send_request!
\* starts the blocking send
submit(i, request) ==
    /\ inflight.call[i].state = "idle"
    /\ inflight' = [inflight EXCEPT !.call[i].state = "sending",
                                    !.call[i].request = Some(request)]
    /\ transportIdle

\* send_request!: blocking_send waits for room in the request channel; it fails
\* when the Receiver is gone, and the upcall replies EIO
blocking_send(i) ==
    /\ inflight.call[i].state = "sending"
    /\ IF ReceiverAlive
       THEN /\ Len(inflight.queue) < MaxQueued
            /\ inflight' = [inflight EXCEPT !.queue = Append(@, i),
                                            !.call[i].state = "queued"]
       ELSE inflight' = [inflight EXCEPT !.call[i].state = "replied",
                                         !.call[i].replies = @ + 1,
                                         !.call[i].reply = Some("EIO")]
    /\ transportIdle

\* listen_for_file_requests: rx.recv() takes the next request once the
\* handler of the previous one has returned and its message is received
recv(i) ==
    /\ Listening
    /\ inflight.queue # <<>>
    /\ Head(inflight.queue) = i
    /\ \A j \in Calls : inflight.call[j].state # "handling"
    /\ inflight' = [inflight EXCEPT !.queue = Tail(@),
                                    !.call[i].state = "handling"]
    /\ resp' = NoResponse
    /\ UNCHANGED <<pstate, alt_root_id, entries, parents, children, file_handles,
                   next_fh, running_requests, tasks, cache, remote, remoteFiles,
                   downloads, uploads, ghost>>
    /\ UNCHANGED <<fvars, uploader, legacy, poller, vec>>

\* the request taken from the channel has no answer yet
Unanswered(i) == inflight.call[i].state = "handling" /\ resp = NoResponse
InHand(request) ==
    \E i \in Calls : Unanswered(i) /\ inflight.call[i].request = Some(request)

\* faulty variant of receive_response: a closed reply channel is not noticed
receive_response_Blocking(message, closed) ==
    IF IsSome(message) THEN Some(Unwrap(message).code) ELSE None

\* receive_response! and match_provider_response!: blocking_recv yields the
\* first message (Error(e, code) becomes reply.error(code)), or None when every
\* sender of the reply channel is gone, which becomes reply.error(EIO)
receive_response(message, closed) ==
    IF IsSome(message) THEN Some(Unwrap(message).code)
    ELSE IF closed THEN Some("EIO")
    ELSE None

\* the adapter thread of an upcall leaves blocking_recv and replies to the kernel
blocking_recv(i) ==
    /\ inflight.call[i].state \in {"queued", "handling"}
    /\ LET message == IF inflight.call[i].state = "handling" /\ resp # NoResponse
                      THEN Some(resp) ELSE None
           r == receive_response(message, ~ReceiverAlive)
       IN
       /\ IsSome(r)
       /\ inflight' = [inflight EXCEPT
              !.queue = SelectSeq(@, LAMBDA j : j # i),
              !.call[i].state = "replied",
              !.call[i].responses = IF IsSome(message) THEN ResponsesSent(resp) ELSE 0,
              !.call[i].replies = @ + 1,
              !.call[i].reply = r]
    /\ transportIdle

\* ----------------------------------------------------- polls of the feed
\* a change as the remote lists it; every field may be missing
DriveChange(file_id, time, change_type, removed, name) ==
    [file_id |-> file_id, time |-> time, change_type |-> change_type,
     removed |-> removed, name |-> name]

\* ChangeType::from_drive_change, for changes that carry their file or drive
from_drive_change(change_type, removed) ==
    IF removed THEN Some("Removed")
    ELSE IF ~IsSome(change_type) THEN None
    ELSE IF Unwrap(change_type) = "drive" THEN Some("Drive")
    ELSE IF Unwrap(change_type) = "file" THEN Some("File")
    ELSE None

\* Change::try_from: Err without file id, change type or time
try_from(drive_change) ==
    IF ~IsSome(drive_change.file_id) THEN None
    ELSE IF ~IsSome(from_drive_change(drive_change.change_type, drive_change.removed))
    THEN None
    ELSE IF ~IsSome(drive_change.time) THEN None
    ELSE Some([id |-> Unwrap(drive_change.file_id),
               kind |-> Unwrap(from_drive_change(drive_change.change_type,
                                                 drive_change.removed)),
               name |-> drive_change.name, size |-> None, parents |-> None])

\* .map(Change::try_from).collect::<Result<Vec<_>>>(): Err when one fails
Collected(page) ==
    IF \E i \in 1..Len(page) : ~IsSome(try_from(page[i])) THEN None
    ELSE Some([i \in 1..Len(page) |-> Unwrap(try_from(page[i]))])

\* the loop of check_and_apply_changes over process_change: the changes it was
\* called with, the entries they leave, and whether one ran into a todo!()
RECURSIVE ProcessChanges(_, _)
ProcessChanges(es, changes) ==
    IF changes = <<>>
    THEN [entries |-> es, handed |-> <<>>, panicked |-> FALSE]
    ELSE LET change == Head(changes)
             id == get_correct_id(change.id)
         IN IF Has(es, id) /\ change.kind = "File"
            THEN LET rest == ProcessChanges(
                                 [es EXCEPT ![id] = process_file_change(@, change)],
                                 Tail(changes))
                 IN [rest EXCEPT !.handed = <<change>> \o @]
            ELSE [entries |-> es, handed |-> <<change>>, panicked |-> TRUE]

\* check_and_apply_changes with get_changes: nothing is asked while the last
\* check is recent; get_changes_since advances the start token when the
\* remote answers; the changes are applied when all of them convert
poll_changes(page, answered) ==
    /\ Listening
    /\ ~poller.recent
    /\ poller.polls < MaxPolls
    /\ IF ~answered
       THEN /\ poller' = [poller EXCEPT !.polls = @ + 1, !.outcome = "failed",
                                        !.page = <<>>, !.handed = <<>>]
            /\ UNCHANGED <<entries, pstate>>
       ELSE LET changes == Collected(page)
                done == ProcessChanges(entries, IF IsSome(changes) THEN Unwrap(changes)
                                                ELSE <<>>)
            IN /\ poller' = [changes_start_token |-> poller.changes_start_token + 1,
                             recent |-> TRUE,
                             polls |-> poller.polls + 1,
                             outcome |-> "fetched",
                             page |-> page,
                             handed |-> done.handed]
               /\ entries' = done.entries
               /\ pstate' = IF done.panicked THEN "panicked" ELSE pstate
    /\ UNCHANGED <<alt_root_id, parents, children, running_requests, tasks, resp>>
    /\ ioIdle
    /\ UNCHANGED <<fvars, uploader, legacy, inflight, vec>>

\* allowed_cache_time has passed since last_checked_for_changes
cache_time_passed ==
    /\ poller.recent
    /\ poller' = [poller EXCEPT !.recent = FALSE]
    /\ UNCHANGED <<pvars, fvars, uploader, legacy, inflight, vec>>

\* --------------------------------------------------------- lists of ids
vecIdle == UNCHANGED <<pvars, fvars, uploader, legacy, inflight, poller>>

\* a Vec of children of parent R is built, next to the parents of the child
\* that is looked for
new_vec(list, target, parent_list) ==
    /\ vec.op = "new"
    /\ vec' = [op |-> "built", before |-> list, target |-> target,
               parents_before |-> parent_list, list |-> list, parents |-> parent_list,
               returned |-> None]
    /\ vecIdle

\* list.remove_first_element(&target)
call_remove_first_element ==
    /\ vec.op = "built"
    /\ vec' = [vec EXCEPT !.op = "removed",
                          !.list = remove_first_element(vec.list, vec.target),
                          !.returned = removed_element(vec.list, vec.target)]
    /\ vecIdle

\* remove_parent_child_relation(R, target) on the graph that holds the two lists
call_remove_parent_child_relation ==
    /\ vec.op = "built"
    /\ LET g == remove_parent_child_relation(
                    [parents |-> Put(EmptyMap, vec.target, vec.parents),
                     children |-> Put(EmptyMap, RealRoot, vec.list)],
                    RealRoot, vec.target)
       IN vec' = [vec EXCEPT !.op = "unlinked",
                             !.list = g.children[RealRoot],
                             !.parents = g.parents[vec.target]]
    /\ vecIdle

\* ------------------------------------------------------------ construction
\* DriveFileProvider::new and DriveFilesystem::new, over a remote that lists
\* `files` and holds `content`
Construct(files, content) ==
    /\ pstate = "new"
    /\ alt_root_id = RootAlias
    /\ entries = EmptyMap
    /\ parents = EmptyMap
    /\ children = EmptyMap
    /\ file_handles = EmptyMap
    /\ next_fh = FirstFh
    /\ running_requests = EmptyMap
    /\ tasks = {}
    /\ cache = [id \in AllIds |-> None]
    /\ remote = content
    /\ remoteFiles = files
    /\ downloads = [id \in AllIds |-> 0]
    /\ uploads = [id \in AllIds |-> 0]
    /\ resp = [req |-> "None", kind |-> "None", to |-> RootAlias, id |-> RootAlias,
               name |-> "", fh |-> 0, off |-> 0, val |-> <<>>, code |-> "OK"]
    /\ ghost = [wrote |-> {}, lastWrite |-> [id \in AllIds |-> None], resized |-> {}]
    /\ fstate = "new"
    /\ entry_ids = {}
    /\ next_ino = FirstIno
    /\ allocated = <<>>
    /\ enum = [dir |-> FuseRootIno, capacity |-> 1, offset |-> 0, emitted |-> <<>>,
               calls |-> 0, done |-> FALSE]
    /\ uploader = [state |-> "listening", receiver |-> <<>>, held |-> None,
                   running_uploads |-> EmptyMap, tasks |-> {}, now |-> 0,
                   sent |-> [id \in UploadIds |-> <<>>], uploaded |-> <<>>]
    /\ legacy = [entry |-> [md5_checksum |-> None, local_md5_checksum |-> None,
                            has_upstream_content_changes |-> TRUE],
                 file |-> None, remote |-> Some("s1"), compared |-> None, last |-> "new"]
    /\ inflight = [queue |-> <<>>, call |-> [i \in Calls |-> NewCall]]
    /\ poller = [changes_start_token |-> 0, recent |-> FALSE, polls |-> 0,
                 outcome |-> "none", page |-> <<>>, handed |-> <<>>]
    /\ vec = [op |-> "new", before |-> <<>>, target |-> "A", parents_before |-> <<>>,
              list |-> <<>>, parents |-> <<>>, returned |-> None]

\* ------------------------------------------------- specification of file I/O
\* the remote holds one file F below the root
\* byte values: 0 is what zero fill produces, 2 what the remote holds at startup,
\* 1 what the kernel writes
InitialContents == {[i \in 1..MaxFileLen |-> 2]}
IOFiles(c) == <<Metadata("F", "f", Some(<<RealRoot>>), PlainMime, Some(Len(c)))>>
IOContent(c) == [id \in AllIds |-> IF id = "F" THEN c ELSE <<>>]

InitIO == \E c \in InitialContents : Construct(IOFiles(c), IOContent(c))

FhRange == FirstFh..(FirstFh + MaxHandles - 1)
WriteData == {[i \in 1..n |-> 1] : n \in 1..MaxFileLen}

NextIO ==
    \/ initialize_entries
    \/ \E flags \in OpenFlags : open_file("F", flags)
    \/ \E fh \in FhRange, offset \in 0..MaxFileLen, size \in 1..MaxFileLen :
          read_content("F", fh, offset, size)
    \/ \E fh \in FhRange, offset \in 0..MaxFileLen, data \in WriteData :
          /\ offset + Len(data) <= MaxFileLen
          /\ write_content("F", fh, offset, data)
    \/ \E size \in {Some(n) : n \in 0..MaxFileLen}, fh \in {None} \cup {Some(h) : h \in FhRange} :
          set_attr("F", size, fh, None, None, None, None)
    \/ \E fh \in FhRange : release_file("F", fh)
    \/ DownloadCreate("F")
    \/ DownloadChunk("F")
    \/ DownloadFinish("F")
    \/ UploadRun("F")
    \/ TaskFail("F")

SpecIO == InitIO /\ [][NextIO]_vars

\* ------------------------- specification of the attributes and of unknown ids
\* the requests name file F, the root or X, an id without entry
AttrIds == {"F", RootAlias, UnknownId}
AttrSizes == {None, Some(1)}
AttrHandles == {None, Some(FirstFh)}
\* 0o600
AttrModes == {None, Some(384)}
AttrFlags == {None, Some(1)}
AttrOwners == {None, Some(1000)}

NextAttr ==
    \/ initialize_entries
    \/ \E id \in AttrIds : open_file(id, O_RDWR)
    \/ DownloadCreate("F")
    \/ DownloadChunk("F")
    \/ DownloadFinish("F")
    \/ \E id \in AttrIds, size \in AttrSizes, fh \in AttrHandles, mode \in AttrModes,
          flags \in AttrFlags, uid \in AttrOwners, gid \in AttrOwners :
          set_attr(id, size, fh, mode, flags, uid, gid)
    \/ \E id \in AttrIds : metadata(id)
    \/ \E id \in AttrIds, fh \in FhRange :
          /\ KernelPair(id, fh)
          /\ write_content(id, fh, 0, <<1>>)
    \/ \E id \in AttrIds : read_dir(id, 0)

SpecAttr == InitIO /\ [][NextAttr]_vars

\* ------------------------------- specification of a remote edit of a cached file
\* what another client stores as the content of F
RemoteEdits == {<<3>>}
\* the remote content of F is no longer the one of startup
Edited == remote["F"] \notin InitialContents
\* the provider has integrated the change the feed reports for the edit
Integrated ==
    Edited /\ Has(entries, "F") /\ entries["F"].metadata.size = Some(Len(remote["F"]))
Pending == Edited /\ ~Integrated
\* the change get_changes_since reports for F: the metadata of the new content
FeedChange ==
    [id |-> "F", kind |-> "File", name |-> None, size |-> Some(Len(remote["F"])),
     parents |-> None, md5 |-> Md5(remote["F"])]

\* another client replaces the content of F on the remote, once, while the
\* cache file holds the complete download and one handle has been opened
RemoteEdit(c) ==
    /\ ~Edited
    /\ next_fh = FirstFh + 1
    /\ FileExists("F") /\ FileContent("F") = remote["F"]
    /\ c # remote["F"]
    /\ remote' = [remote EXCEPT !["F"] = c]
    /\ remoteFiles' = IOFiles(c)
    /\ UNCHANGED <<pstate, alt_root_id, entries, parents, children, file_handles, next_fh,
                   running_requests, tasks, cache, downloads, uploads, resp, ghost>>
    /\ UNCHANGED <<fvars, lvars>>

\* the kernel opens F before the edit or after the change is integrated
NextFeed ==
    \/ initialize_entries
    \/ ~Pending /\ open_file("F", O_RDONLY)
    \/ \E fh \in FhRange, offset \in 0..1, size \in 1..MaxFileLen :
          read_content("F", fh, offset, size)
    \/ \E fh \in FhRange : release_file("F", fh)
    \/ DownloadCreate("F")
    \/ DownloadChunk("F")
    \/ DownloadFinish("F")
    \/ \E c \in RemoteEdits : RemoteEdit(c)
    \/ Pending /\ check_and_apply_changes(FeedChange)

SpecFeed == InitIO /\ [][NextFeed]_vars

\* ------------------------------------- specification of the end of the task
\* what command_receiver.recv() yields: a command, or None when every sender
\* of the command channel is gone
Signals == {Some("Stop"), Some("PauseSync"), None}

\* listen_for_stop completes inside the select! of listen: the future of
\* listen_for_file_requests is dropped; a command other than Stop is a todo!()
listen_for_stop(signal) ==
    /\ pstate \in {"new", "listening"}
    /\ pstate' = IF ~IsSome(signal) THEN "commands_closed"
                 ELSE IF Unwrap(signal) = "Stop" THEN "stopped"
                 ELSE "panicked"
    /\ UNCHANGED <<alt_root_id, entries, parents, children, file_handles, next_fh,
                   running_requests, tasks, cache, remote, remoteFiles, downloads,
                   uploads, resp, ghost>>
    /\ UNCHANGED <<fvars, lvars>>

\* rx.recv() yields None in listen_for_file_requests: every request sender is
\* gone, the loop ends
requests_closed ==
    /\ Listening
    /\ pstate' = "requests_closed"
    /\ UNCHANGED <<alt_root_id, entries, parents, children, file_handles, next_fh,
                   running_requests, tasks, cache, remote, remoteFiles, downloads,
                   uploads, resp, ghost>>
    /\ UNCHANGED <<fvars, lvars>>

NextStop ==
    \/ initialize_entries
    \/ \E flags \in OpenFlags : open_file("F", flags)
    \/ \E fh \in FhRange, offset \in 0..1 : read_content("F", fh, offset, 1)
    \/ \E fh \in FhRange : release_file("F", fh)
    \/ \E id \in AttrIds : metadata(id)
    \/ DownloadCreate("F")
    \/ DownloadChunk("F")
    \/ DownloadFinish("F")
    \/ \E signal \in Signals : listen_for_stop(signal)
    \/ requests_closed

SpecStop == InitIO /\ [][NextStop]_vars

\* ------------------------------------- specification of the flags of an open
\* the flag words of the open upcalls: every access mode, alone and with
\* O_APPEND, O_LARGEFILE (0x8000) or O_SYNC
FlagWords == {mode + other : mode \in 0..O_ACCMODE, other \in {0, O_APPEND, 32768, O_SYNC}}

NextFlags ==
    \/ initialize_entries
    \/ \E flags \in FlagWords : open_file("F", flags)
    \/ \E fh \in FhRange : release_file("F", fh)
    \/ DownloadCreate("F")
    \/ DownloadChunk("F")
    \/ DownloadFinish("F")

SpecFlags == InitIO /\ [][NextFlags]_vars

\* ------------------------------ specification of a rename followed by an upload
NextUpload ==
    \/ initialize_entries
    \/ \E np \in {RootAlias, UnknownId}, nn \in {"f", "g"} : rename(RootAlias, "f", np, nn)
    \/ open_file("F", O_RDWR)
    \/ \E fh \in FhRange : write_content("F", fh, 0, <<1>>)
    \/ \E fh \in FhRange : release_file("F", fh)
    \/ DownloadCreate("F")
    \/ DownloadChunk("F")
    \/ DownloadFinish("F")
    \/ UploadRun("F")

SpecUpload == InitIO /\ [][NextUpload]_vars

\* --------------------------------- specification of the upload scheduler
NextUploader ==
    \/ \E kind \in UploaderKinds, drive_id \in {None} \cup {Some(id) : id \in UploadIds} :
          /\ (kind # "UploadChange" => drive_id = None)
          /\ Len(uploader.sent["F"]) + Len(uploader.sent["G"]) + Len(uploader.sent["B"])
                 < MaxCommands
          /\ send_command(kind, drive_id)
    \/ listen
    \/ cancel_and_wait_for_running_upload_for_id
    \/ \E id \in UploadIds, serial \in 1..MaxCommands : upload_file_cancelled(id, serial)
    \/ \E id \in UploadIds, serial \in 1..MaxCommands : upload_file_slept(id, serial)
    \/ \E id \in UploadIds, serial \in 1..MaxCommands : upload_file_(id, serial)
    \/ Tick
SpecUploader == InitIO /\ [][NextUploader]_vars

\* ------------------------- specification of the write-through filesystem
NextLegacy ==
    \/ \E input \in {"1", "2"} : update_entry_metadata_cache_if_needed(input)
    \/ \E input \in {"1", "2"} : download_file_to_cache(input)
    \/ \E sum \in OptSums : write(sum)
    \/ upload_finished
    \/ \E sum \in OptSums : remote_edit(sum)
SpecLegacy == InitIO /\ [][NextLegacy]_vars

\* ------------------------------------------ specification of the mime types
\* the remote lists G with any of the rejected types, as a folder, as a plain
\* file, with an app type the match does not name, or without a mime type
\* (create_file_attr_from_metadata then passes "NONE")
ListedMimes ==
    AppMimes \cup {FolderMime, PlainMime, "application/vnd.google-apps.shortcut", "NONE"}
InitMime ==
    \E m \in ListedMimes :
        Construct(<<Metadata("A", "a", Some(<<RealRoot>>), FolderMime, None),
                    Metadata("F", "f", None, PlainMime, Some(MaxFileLen)),
                    Metadata("G", "g", Some(<<"A">>), m, Some(0))>>,
                  [id \in AllIds |-> <<>>])
NextMime ==
    \/ initialize_entries
    \/ \E parent \in {RootAlias, "A", "G"}, name \in {"f", "g"} : lookup(parent, name)
    \/ \E id \in {RootAlias, "A", "G"}, offset \in 0..1 : read_dir(id, offset)
    \/ \E id \in {RootAlias, "A", "F", "G"} : metadata(id)
SpecMime == InitMime /\ [][NextMime]_vars

\* ------------------------------------- specification of the failing download
\* opens, reads and releases of F while its download runs, finishes or fails;
\* nothing writes to the cache file but the download
NextRecover ==
    \/ initialize_entries
    \/ \E flags \in OpenFlags : open_file("F", flags)
    \/ \E fh \in FhRange, offset \in 0..1, size \in 1..MaxFileLen :
          read_content("F", fh, offset, size)
    \/ \E fh \in FhRange : release_file("F", fh)
    \/ DownloadCreate("F")
    \/ DownloadChunk("F")
    \/ DownloadFinish("F")
    \/ TaskFail("F")
SpecRecover == InitIO /\ [][NextRecover]_vars

\* ------------------------------- specification of requests next to the tasks
\* every request that touches the cache file or the entry of F, renames of F
\* included, while the download or the upload of F runs
NextOverlap ==
    \/ initialize_entries
    \/ \E nn \in {"f", "g"} : rename(RootAlias, "f", RootAlias, nn)
    \/ open_file("F", O_RDWR)
    \/ \E fh \in FhRange : read_content("F", fh, 0, 1)
    \/ \E fh \in FhRange : write_content("F", fh, 0, <<1>>)
    \/ \E size \in {Some(0), Some(1)}, fh \in {None, Some(FirstFh)} :
          set_attr("F", size, fh, None, None, None, None)
    \/ \E fh \in FhRange : release_file("F", fh)
    \/ DownloadCreate("F")
    \/ DownloadChunk("F")
    \/ DownloadFinish("F")
    \/ UploadRun("F")
    \/ TaskFail("F")
SpecOverlap == InitIO /\ [][NextOverlap]_vars

\* ------------------------------------------ specification of the directories
\* the remote lists folder A, folder B inside A, file F and file G; G may be a
\* google document, which the provider skips
ParentsOfF == {None, Some(<<>>), Some(<<RealRoot>>), Some(<<"A">>), Some(<<"A", "B">>),
               Some(<<UnknownId>>)}
\* G is a google document or a file named like F up to case
VariantsOfG == {[name |-> "g", mime |-> DocMime], [name |-> "F", mime |-> PlainMime]}
Listing(pF, g) ==
    <<Metadata("A", "a", Some(<<RealRoot>>), FolderMime, None),
      Metadata("B", "b", Some(<<"A">>), FolderMime, None),
      Metadata("F", "f", pF, PlainMime, Some(MaxFileLen)),
      Metadata("G", g.name, Some(<<"A">>), g.mime, Some(0))>>
NoContent == [id \in AllIds |-> <<>>]

Init ==
    \E pF \in ParentsOfF, g \in VariantsOfG : Construct(Listing(pF, g), NoContent)

ReqIds == {RootAlias, "A", UnknownId}
ReqNames == {"f", "F"}
\* a Rename may also name "g", which differs from "f" in more than case
RenameNames == ReqNames \cup {"g"}
NewNames == {"F", "g"}
\* what the change feed reports
Change(id, kind, name, size, par) ==
    [id |-> id, kind |-> kind, name |-> name, size |-> size, parents |-> par]
Changes ==
    {Change("F", "File", Some("g"), Some(1), Some(<<"B">>)),
     Change(RootAlias, "File", Some("g"), None, None),
     Change(UnknownId, "File", None, None, None),
     Change("F", "Removed", None, None, None),
     Change("F", "Drive", None, None, None)}

Next ==
    \/ initialize_entries
    \/ \E parent \in ReqIds, name \in ReqNames : lookup(parent, name)
    \/ \E id \in ReqIds, offset \in 0..1 : read_dir(id, offset)
    \/ \E id \in ReqIds : metadata(id)
    \/ \E op \in ReqIds, np \in ReqIds, on \in RenameNames, nn \in NewNames :
          rename(op, on, np, nn)
    \/ \E change \in Changes : check_and_apply_changes(change)

Spec == Init /\ [][Next]_vars

\* ---------------------------------------------- specification of the adapter
InitFuse ==
    \E pF \in {Some(<<RealRoot>>), Some(<<"A">>)} :
        Construct(Listing(pF, [name |-> "g", mime |-> PlainMime]), NoContent)

Inos == {FuseRootIno, FuseRootIno + 1} \cup (FirstIno..(FirstIno + MaxInodes - 1))

NextFuse ==
    \/ initialize_entries
    \/ init
    \/ \E parent \in Inos, name \in {"a", "f", "g"} : fuse_lookup(parent, name)
    \/ \E ino \in Inos, capacity \in 1..MaxCapacity : readdir(ino, 0, capacity)
    \/ /\ enum.calls > 0
       /\ ~enum.done
       /\ enum.calls < MaxReaddirCalls
       /\ readdir(enum.dir, enum.offset, enum.capacity)

SpecFuse == InitFuse /\ [][NextFuse]_vars

\* ------------------------------------ specification of the request transport
\* the upcalls open F or an id without entry, or ask for their metadata
TransportRequests ==
    {ProviderRequest("OpenFile", id, O_RDONLY) : id \in {"F", UnknownId}}
        \cup {ProviderRequest("Metadata", id, 0) : id \in {"F", UnknownId}}
\* the feed holds an edit of F or its removal
TransportChanges == {c \in Changes : c.id = "F" /\ c.kind \in {"File", "Removed"}}

NextTransport ==
    \/ initialize_entries
    \/ \E i \in Calls, request \in TransportRequests : submit(i, request)
    \/ \E i \in Calls : blocking_send(i)
    \/ \E i \in Calls : recv(i)
    \/ \E change \in TransportChanges :
          /\ \E i \in Calls : Unanswered(i)
          /\ check_and_apply_changes(change)
    \/ \E id \in {"F", UnknownId} :
          /\ InHand(ProviderRequest("OpenFile", id, O_RDONLY))
          /\ open_file(id, O_RDONLY)
    \/ \E id \in {"F", UnknownId} :
          /\ InHand(ProviderRequest("Metadata", id, 0))
          /\ metadata(id)
    \/ \E i \in Calls : blocking_recv(i)
    \/ \E signal \in Signals : listen_for_stop(signal)
    \/ DownloadCreate("F")
    \/ DownloadChunk("F")
    \/ DownloadFinish("F")
    \/ TaskFail("F")

\* the runtime keeps running the provider task, the spawned tasks and the
\* adapter threads
SpecTransport ==
    /\ InitIO
    /\ [][NextTransport]_vars
    /\ WF_vars(initialize_entries)
    /\ WF_vars(\E i \in Calls : blocking_send(i))
    /\ WF_vars(\E i \in Calls : recv(i))
    /\ WF_vars(\E id \in {"F", UnknownId} :
                  /\ InHand(ProviderRequest("OpenFile", id, O_RDONLY))
                  /\ open_file(id, O_RDONLY))
    /\ WF_vars(\E id \in {"F", UnknownId} :
                  /\ InHand(ProviderRequest("Metadata", id, 0))
                  /\ metadata(id))
    /\ WF_vars(\E i \in Calls : blocking_recv(i))
    /\ WF_vars(DownloadCreate("F"))
    /\ WF_vars(DownloadChunk("F"))
    /\ WF_vars(DownloadFinish("F"))

\* ------------------------------------------ specification of the polls
\* what the remote lists: a rename of F, and changes that lack a field
DriveChanges ==
    {DriveChange(Some("F"), Some(1), Some("file"), FALSE, Some("g")),
     DriveChange(Some("F"), Some(1), Some("file"), FALSE, Some("h")),
     DriveChange(None, Some(1), Some("file"), FALSE, None),
     DriveChange(Some("F"), None, Some("file"), FALSE, Some("g")),
     DriveChange(Some("F"), Some(1), None, FALSE, Some("g")),
     DriveChange(Some("F"), Some(1), Some("file"), TRUE, None)}
Pages == {<<a>> : a \in DriveChanges} \cup {<<a, b>> : a, b \in DriveChanges}

NextPoll ==
    \/ initialize_entries
    \/ \E page \in Pages, answered \in BOOLEAN : poll_changes(page, answered)
    \/ cache_time_passed
    \/ metadata("F")

SpecPoll == InitIO /\ [][NextPoll]_vars

\* ------------------------------------ specification of the Write requests
\* WriteContent requests as the provider takes them from its channel: the id
\* and the handle are two fields of the request; F is opened read-only or
\* read-write, X has no entry
WriteIds == {"F", UnknownId}

NextWrite ==
    \/ initialize_entries
    \/ \E flags \in {O_RDONLY, O_RDWR} : open_file("F", flags)
    \/ DownloadCreate("F")
    \/ DownloadChunk("F")
    \/ DownloadFinish("F")
    \/ \E id \in WriteIds, fh \in FhRange, data \in WriteData :
          write_content(id, fh, 0, data)
    \/ \E fh \in FhRange : release_file("F", fh)
    \/ UploadRun("F")

SpecWrite == InitIO /\ [][NextWrite]_vars

\* ------------------------------------------ specification of the lists
VecIds == {"A", "B", "F"}
VecLists == UNION {[1..n -> VecIds] : n \in 0..MaxVecLen}
ParentLists == {<<RealRoot>>, <<RealRoot, RealRoot>>, <<"A", RealRoot>>, <<"A">>}

NextVec ==
    \/ \E list \in VecLists, target \in VecIds, parent_list \in ParentLists :
          new_vec(list, target, parent_list)
    \/ call_remove_first_element
    \/ call_remove_parent_child_relation

SpecVec == InitIO /\ [][NextVec]_vars

\* ---------------------------------------------------------------- file I/O
Answered(req) == resp.req = req /\ resp.kind = req
HandlesOf(id) == {fh \in DOMAIN file_handles : file_handles[fh].path = id}
Unfinished(id, kind) == \E t \in tasks : t.id = id /\ t.kind = kind /\ ~TaskDone(t)
Finished(id, kind) == Task(id, kind, "ok") \in tasks

\* C1: once the upload started by the release of a dirty handle has finished,
\* the remote copy equals the local cache file: the remote's size is the size
\* of the cache file, which is the attr.size the provider reports, and the
\* remote's md5 is the checksum of the cache file.
C1_UploadedEqualsLocal ==
    \A id \in FileIds :
        Finished(id, "upload") =>
            /\ FileExists(id)
            /\ Len(remote[id]) = Len(FileContent(id))
            /\ Len(remote[id]) = entries[id].size
            /\ Md5(remote[id]) = Md5(FileContent(id))

\* C2: a Read of n bytes at offset o that is answered after a Write of n bytes
\* at offset o on the same id, with no later write or resize of the id, returns
\* the bytes written, through whichever read-capable handle it goes.
C2_WriteReadRoundTrip ==
    (Answered("ReadContent") /\ IsSome(ghost.lastWrite[resp.id])) =>
        LET w == Unwrap(ghost.lastWrite[resp.id])
        IN (resp.off = w.off /\ Len(resp.val) = Len(w.data)) => resp.val = w.data

\* a read through another handle than the one that wrote
C2_Witness ==
    /\ Answered("ReadContent")
    /\ IsSome(ghost.lastWrite[resp.id])
    /\ resp.off = Unwrap(ghost.lastWrite[resp.id]).off
    /\ resp.off > 0
    /\ Len(resp.val) = Len(Unwrap(ghost.lastWrite[resp.id]).data)
    /\ resp.fh \notin ghost.wrote

\* C3: whatever the interleaving of the Opens of an id that is not cached, the
\* remote receives one download call for the id, and two readers that read the
\* same range one after the other get the same bytes.
C3_OneDownload ==
    /\ [](\A id \in FileIds :
            /\ downloads[id] <= 1
            /\ \A fh \in HandlesOf(id) : file_handles[fh].file => downloads[id] = 1)
    /\ [][(/\ Answered("ReadContent")
           /\ resp'.req = "ReadContent" /\ resp'.kind = "ReadContent"
           /\ resp'.id = resp.id
           /\ resp'.off = resp.off
           /\ Len(resp'.val) = Len(resp.val)
           /\ ghost' = ghost /\ ghost.lastWrite[resp.id] = None)
          => resp'.val = resp.val]_vars

\* two readers hold a handle of the id, and the second has just read
C3_Witness ==
    /\ Answered("ReadContent")
    /\ downloads[resp.id] = 1
    /\ Cardinality(HandlesOf(resp.id)) = 2
    /\ \A fh \in HandlesOf(resp.id) :
          file_handles[fh].file /\ file_handles[fh].flags.o_rdonly
    /\ resp.val = remote[resp.id]

\* C4 as claimed: the file handle is allocated, and the OpenFile response sent,
\* only after the download has completed.
C4_OpenAfterDownload ==
    \A id \in FileIds : Unfinished(id, "download") => HandlesOf(id) = {}

\* C4 as the code has it: the Open registers the download and answers at once;
\* until the download has finished nothing else is answered for the id: the one
\* handle of that Open is all there is, and its file has not been opened.
C4_DownloadBeforeAccess ==
    \A id \in FileIds :
        Unfinished(id, "download") =>
            /\ resp.id = id => Answered("OpenFile")
            /\ Cardinality(HandlesOf(id)) = 1
            /\ \A fh \in HandlesOf(id) : ~file_handles[fh].file
            /\ ghost.lastWrite[id] = None

C4_Witness ==
    \E id \in FileIds :
        /\ Unfinished(id, "download")
        /\ Running(id, "download", "created")
        /\ Answered("OpenFile")

\* C5: a release removes the handle; it starts an upload of the id exactly when
\* a Write succeeded through the handle; afterwards Read and Write with that fh
\* are answered with an error.
C5_Release ==
    /\ [](resp.req = "ReleaseFile" => ~Has(file_handles, resp.fh))
    /\ []((resp.req \in {"ReadContent", "WriteContent"} /\ ~Has(file_handles, resp.fh))
            => resp.kind = "Error")
    /\ [][\A fh \in DOMAIN file_handles :
            ~Has(file_handles', fh) =>
                LET id == file_handles[fh].path
                IN IF fh \in ghost.wrote
                   THEN /\ uploads'[id] = uploads[id] + 1
                        /\ Has(running_requests', id)
                        /\ running_requests'[id] = "upload"
                        /\ Task(id, "upload", "started") \in tasks'
                   ELSE /\ uploads' = uploads
                        /\ ~Has(running_requests', id)
                        /\ \A t \in tasks' : t.id # id]_vars
    /\ [][uploads' # uploads => DOMAIN file_handles' # DOMAIN file_handles]_vars

\* a dirty handle was released, its upload started, and a request with the
\* released fh has been answered
C5_Witness ==
    /\ resp.req \in {"ReadContent", "WriteContent"}
    /\ resp.kind = "Error"
    /\ resp.fh < next_fh
    /\ ~Has(file_handles, resp.fh)
    /\ uploads[resp.id] = 1

\* -------------------------------------------------------------- directories
ListOf(m, k) == IF Has(m, k) THEN m[k] ELSE <<>>
GraphIds == AllIds \cup {RootAlias}
Initialized == pstate # "new"

\* C6: after initialize_entries, whatever renames were served and changes were
\* integrated, c is listed in children[p] exactly when p is listed in
\* parents[c], for all ids p and c.
C6_ParentsChildrenConsistent ==
    Initialized =>
        \A p \in GraphIds, c \in GraphIds :
            InSeq(c, ListOf(children, p)) <=> InSeq(p, ListOf(parents, c))

\* a rename has moved a file out of folder A and a change of F was integrated
C6_Witness ==
    /\ Answered("Rename")
    /\ \E id \in FileIds :
          /\ Has(entries, id)
          /\ IsSome(entries[id].changed_parents)
          /\ InSeq(id, ListOf(children, UnknownId))
          /\ ~InSeq(id, ListOf(children, "A"))
    /\ Has(entries, "F")
    /\ entries["F"].metadata.name = Some("g")

\* C7: after initialize_entries the literal "root" is no key of entries,
\* parents or children and no element of a parents or children list, and a
\* request addressed to "root" is served from the entry under alt_root_id.
C7_NoRootSentinel ==
    /\ [](Initialized =>
            /\ alt_root_id # RootAlias
            /\ Has(entries, alt_root_id)
            /\ ~Has(entries, RootAlias)
            /\ ~Has(parents, RootAlias)
            /\ ~Has(children, RootAlias)
            /\ \A k \in GraphIds :
                  /\ ~InSeq(RootAlias, ListOf(parents, k))
                  /\ ~InSeq(RootAlias, ListOf(children, k)))
    /\ [][(resp' # resp /\ resp'.to = RootAlias) =>
            LET found == find_first_child_by_name(resp'.name, alt_root_id)
                Known(id) == Has(entries, id)
                listed == SelectSeq(ListOf(children, alt_root_id), Known)
            IN /\ resp'.id = alt_root_id
               /\ resp'.req = "Lookup" =>
                    /\ IsSome(resp'.val) <=> IsSome(found)
                    /\ IsSome(found) => Unwrap(resp'.val).id = Unwrap(found)
               /\ resp'.req = "ReadDir" =>
                    /\ Len(resp'.val) = Max(Len(listed) - resp'.off, 0)
                    /\ \A i \in 1..Len(resp'.val) :
                          resp'.val[i].id = listed[resp'.off + i]
               /\ resp'.req = "Metadata" =>
                    /\ resp'.kind = "Metadata"
                    /\ Unwrap(resp'.val).id = alt_root_id
               /\ (resp'.req = "Rename" /\ resp'.kind = "Rename") =>
                    /\ IsSome(found)
                    /\ resp'.val[1] # alt_root_id =>
                          Count(Unwrap(found), ListOf(children', alt_root_id))
                            = Count(Unwrap(found), ListOf(children, alt_root_id)) - 1
                    /\ InSeq(Unwrap(found), ListOf(children', resp'.val[1]))]_vars

\* a rename addressed to "root" has moved a child of the root away
C7_Witness ==
    /\ Answered("Rename")
    /\ resp.to = RootAlias
    /\ resp.val[1] = UnknownId
    /\ \E id \in FileIds :
          InSeq(id, ListOf(children, UnknownId)) /\ IsSome(entries[id].changed_parents)

\* C8: after initialize_entries every id of the entry table is a key of
\* parents, every entry but the root is listed in children[p] for some p, and
\* an object the remote reports without parents (field absent or list empty)
\* is, until a rename moves it, listed in children of the real root.
C8_EveryEntryAttached ==
    Initialized =>
        \A id \in DOMAIN entries :
            /\ Has(parents, id)
            /\ id # alt_root_id => \E p \in GraphIds : InSeq(id, ListOf(children, p))
            /\ (/\ id # alt_root_id
                /\ entries[id].metadata.parents \in {None, Some(<<>>)}
                /\ ~IsSome(entries[id].changed_parents))
                  => InSeq(id, ListOf(children, alt_root_id))

\* ----------------------------------------------------------------- adapter
StrictlyIncreasing(s) == \A i \in 1..Len(s), j \in 1..Len(s) : i < j => s[i] < s[j]
IsPrefix(s, t) == Len(s) <= Len(t) /\ \A i \in 1..Len(s) : s[i] = t[i]

\* C9: entry_ids is a bijection, inode 1 denotes "root" from init on, a pair
\* once in the map stays, and an inode that enters the map is larger than every
\* inode allocated before and is not yet in the map.
C9_InodeBijection ==
    /\ [](\A p \in entry_ids, q \in entry_ids : (p[1] = q[1] \/ p[2] = q[2]) => p = q)
    /\ [](Mounted => <<FuseRootIno, RootAlias>> \in entry_ids)
    /\ [](StrictlyIncreasing(allocated))
    /\ [][/\ entry_ids \subseteq entry_ids'
          /\ \A p \in entry_ids' \ entry_ids :
                /\ \A q \in entry_ids : q[1] # p[1]
                /\ p[1] = FuseRootIno
                     \/ \A i \in 1..Len(allocated) : allocated[i] < p[1]]_vars

\* three inodes are allocated and a readdir has met an id for the second time
C9_Witness ==
    /\ Mounted
    /\ Len(allocated) >= 3
    /\ enum.capacity = 1
    /\ enum.calls >= 2
    /\ Len(enum.emitted) >= 2

\* the ids read_dir lists for the directory under enumeration
EnumListing ==
    LET r == read_dir_response(Unwrap(get_by_left(entry_ids, enum.dir)), 0).val
    IN [i \in 1..Len(r) |-> r[i].id]

\* C10: an enumeration by readdir upcalls, each resuming at the offset of the
\* last entry the kernel received, emits the children once each in the order of
\* children, is complete when it ends, and ends after at most one call per
\* child plus one; a ReadDir at or past the end returns nothing.
C10_EnumerationComplete ==
    /\ enum.calls > 0 =>
          /\ IsPrefix(enum.emitted, EnumListing)
          /\ enum.done => enum.emitted = EnumListing
          /\ enum.calls <= Len(EnumListing) + 1
    /\ (Answered("ReadDir") /\ resp.off >= Len(ListOf(children, resp.id)))
          => resp.val = <<>>

\* ------------------------------------------------------------------ rename
\* a Rename has just been answered
RenameAnswered == resp' # resp /\ resp'.req = "Rename"
\* the entry a Rename from (parent, name) addresses, in the state before it
RenameSource == find_first_child_by_name(resp'.name, resp'.id)
IsDirectory(id) == Has(entries, id) /\ entries[id].kind = "Directory"

\* C11: a Rename of child f of directory A to name g in a known directory B
\* other than A, where no child of B is named g, is answered with success, and
\* then the entry is a child of B, no child of A, and its reported name is g.
C11_RenameMoves ==
    [][(/\ RenameAnswered
        /\ IsSome(RenameSource)
        /\ IsDirectory(resp'.id)
        /\ IsDirectory(resp'.val[1])
        /\ resp'.val[1] # resp'.id
        /\ ~does_target_name_exist_under_parent(resp'.val[1], resp'.val[2]))
       => LET file_id == Unwrap(RenameSource)
          IN /\ resp'.kind = "Rename"
             /\ ~InSeq(file_id, ListOf(children', resp'.id))
             /\ InSeq(file_id, ListOf(children', resp'.val[1]))
             /\ create_file_metadata_from_entry(entries'[file_id]).name
                  = resp'.val[2]]_vars

\* C12: a Rename is answered ENOENT when its source is not found or its
\* new_parent has no entry, EADDRINUSE when a child of the known new_parent has
\* the new name, never ENOENT when the source exists and new_parent is known;
\* an answer of ENOENT or EADDRINUSE leaves entries, parents and children alone.
C12_RenameErrors ==
    [][RenameAnswered =>
        LET known == check_id_exists(resp'.val[1])
            taken == does_target_name_exist_under_parent(resp'.val[1], resp'.val[2])
        IN /\ (~IsSome(RenameSource) \/ ~known)
                => (resp'.kind = "Error" /\ resp'.code = "ENOENT")
           /\ (IsSome(RenameSource) /\ known /\ taken)
                => (resp'.kind = "Error" /\ resp'.code = "EADDRINUSE")
           /\ (IsSome(RenameSource) /\ known) => resp'.code # "ENOENT"
           /\ (resp'.kind = "Error" /\ resp'.code \in {"ENOENT", "EADDRINUSE"})
                => UNCHANGED <<entries, parents, children>>]_vars

\* what a Lookup of (parent, name) finds
Found(parent, name) == lookup_response(parent, name).val
\* the Rename answered last was a success, and nothing was answered since
RenameSucceeded == resp.req = "Rename" /\ resp.kind = "Rename"

\* C13: after a Rename(p, n, p', n') answered with success a Lookup(p', n')
\* finds the renamed entry and a Lookup(p, n) does not; a Rename(p', n', p, n)
\* that follows is answered with success and puts the entry back under p, out
\* of p', with the reported name n.
C13_RenameRoundTrip ==
    /\ [][(RenameAnswered /\ resp'.kind = "Rename")
          => LET file_id == Unwrap(RenameSource)
                 there == Found(resp.val[1], resp.val[2])'
                 here == Found(resp.id, resp.name)'
             IN /\ IsSome(there) /\ Unwrap(there).id = file_id
                /\ ~(IsSome(here) /\ Unwrap(here).id = file_id)]_vars
    /\ [][(/\ RenameSucceeded
           /\ RenameAnswered
           /\ resp'.id = resp.val[1] /\ resp'.name = resp.val[2]
           /\ resp'.val = <<resp.id, resp.name>>)
          => /\ resp'.kind = "Rename"
             /\ \E id \in DOMAIN entries :
                   /\ InSeq(id, ListOf(children', resp.id))
                   /\ resp.id # resp.val[1] => ~InSeq(id, ListOf(children', resp.val[1]))
                   /\ create_file_metadata_from_entry(entries'[id]).name
                        = resp.name]_vars

\* what the remote holds for id
RemoteMetadataOf(files, id) ==
    LET i == CHOOSE i \in 1..Len(files) : files[i].id = Some(id) IN files[i]
\* the remote holds everything the entry has staged
Delivered(files, es, id) ==
    /\ \E i \in 1..Len(files) : files[i].id = Some(id)
    /\ IsSome(es[id].changed_name)
         => RemoteMetadataOf(files, id).name = es[id].changed_name
    /\ IsSome(es[id].changed_parents)
         => RemoteMetadataOf(files, id).parents = es[id].changed_parents

\* C14: a Rename is answered with success only when the remote has received
\* the staged update (new name, new parent) within the call; a Rename that
\* staged an update the remote did not receive is answered EREMOTEIO.
C14_RenameDelivered ==
    [][(RenameAnswered /\ IsSome(RenameSource)
          /\ entries'[Unwrap(RenameSource)] # entries[Unwrap(RenameSource)])
       => LET file_id == Unwrap(RenameSource)
          IN IF Delivered(remoteFiles', entries', file_id)
             THEN resp'.kind = "Rename"
             ELSE resp'.kind = "Error" /\ resp'.code = "EREMOTEIO"]_vars

\* ------------------------------------------------------------------ lookup
\* a Lookup has just been answered
LookupAnswered == resp' # resp /\ resp'.req = "Lookup"
\* two names of the universe that differ at most in the case of ASCII letters
SameIgnoringCase(a, b) == a = b \/ {a, b} = {"f", "F"}
\* the positions in the children of parent_id of the entries named like name
Matches(parent_id, name) ==
    LET cs == ListOf(children, parent_id)
    IN {i \in 1..Len(cs) :
          /\ Has(entries, cs[i])
          /\ IsSome(entries[cs[i]].metadata.name)
          /\ SameIgnoringCase(Unwrap(entries[cs[i]].metadata.name), name)}

WriteAnswered == resp' # resp /\ resp'.req = "WriteContent" /\ resp'.kind = "WriteContent"

\* C16: after a successful Write of len bytes at offset o on an entry of
\* attr.size s the entry's attr.size is max(s, o + len), and when attr.size was
\* the size of the cache file before the Write it is so after it.
C16_WriteSize ==
    [][WriteAnswered =>
         LET id == resp'.id
             s == entries[id].size
         IN /\ entries'[id].size = Max(s, resp'.off + resp'.val[1])
            /\ (s = Len(FileContent(id)))
                 => entries'[id].size = Len(Unwrap(cache'[id]))]_vars

\* a Read has just been answered with data
ReadAnswered == resp' # resp /\ resp'.req = "ReadContent" /\ resp'.kind = "ReadContent"

\* C17: a Read returns no more bytes than the cache file holds from the
\* requested offset on (none at or past EOF, the bytes up to EOF for a range
\* that reaches past it), and the bytes returned are those of the file.
C17_ReadWithinFile ==
    [][ReadAnswered =>
         LET content == FileContent(file_handles[resp'.fh].path)
             n == Len(resp'.val)
         IN /\ n <= Max(0, Len(content) - resp'.off)
            /\ \A i \in 1..n : resp'.val[i] = content[resp'.off + i]]_vars

\* ------------------------------------------------------------- attributes
\* what a Metadata request for id is answered with
MetadataOf(id) == create_file_metadata_from_entry(entries[get_correct_id(id)])
Given(field, old) == IF IsSome(field) THEN Unwrap(field) ELSE old

\* C18: after a successful SetAttr a Metadata of the same id reports the given
\* size, mode (as perm), flags, uid and gid for every field the request gave
\* and the former value for every field it did not give.
C18_SetAttrSparse ==
    [][\A id \in AttrIds, size \in AttrSizes, fh \in AttrHandles, mode \in AttrModes,
          flags \in AttrFlags, uid \in AttrOwners, gid \in AttrOwners :
          (set_attr(id, size, fh, mode, flags, uid, gid) /\ resp'.kind = "SetAttr")
          => /\ MetadataOf(id)'.size = Given(size, MetadataOf(id).size)
             /\ MetadataOf(id)'.perm = Given(mode, MetadataOf(id).perm)
             /\ MetadataOf(id)'.flags = Given(flags, MetadataOf(id).flags)
             /\ MetadataOf(id)'.uid = Given(uid, MetadataOf(id).uid)
             /\ MetadataOf(id)'.gid = Given(gid, MetadataOf(id).gid)
             /\ MetadataOf(id)'.kind = MetadataOf(id).kind
             /\ MetadataOf(id)'.name = MetadataOf(id).name]_vars

\* ---------------------------------------------------------------- unknown ids
\* C19: a Metadata, SetAttr, Open or Write request that names an id without
\* entry is answered with the error ENOENT, and a ReadDir that names a regular
\* file with the error ENOTDIR.
C19_UnknownIdENOENT ==
    [][resp' # resp =>
         /\ (/\ resp'.req \in {"Metadata", "SetAttr", "OpenFile", "WriteContent"}
             /\ ~Has(entries, resp'.id))
              => (resp'.kind = "Error" /\ resp'.code = "ENOENT")
         /\ (/\ resp'.req = "ReadDir"
             /\ Has(entries, resp'.id)
             /\ entries[resp'.id].kind = "RegularFile")
              => (resp'.kind = "Error" /\ resp'.code = "ENOTDIR")]_vars

\* ------------------------------------------------------------ remote edits
\* under SpecFeed a handle after the first one is opened once the change of
\* the remote edit is integrated
OpenedLater(fh) == fh > FirstFh

\* C20: once the change feed's report of new content for a cached file without
\* local edits is integrated, an open of the file has the content downloaded
\* again, and a Read through a handle opened since returns the bytes the
\* remote holds, not those of the stale cache file.
C20_RedownloadAfterChange ==
    /\ [][(/\ resp' # resp /\ resp'.req = "OpenFile" /\ resp'.kind = "OpenFile"
           /\ Integrated
           /\ FileContent("F") # remote["F"])
          => Task("F", "download", "started") \in tasks']_vars
    /\ [][(ReadAnswered /\ Integrated /\ OpenedLater(resp'.fh))
          => resp'.val = ReadBuf(remote["F"], resp'.off, Len(resp'.val))]_vars

\* ------------------------------------------------------------ change feed
\* the Removed change of the feed
RemovedChange == Change("F", "Removed", None, None, None)
\* id occurs nowhere in the graph
Detached(id) ==
    /\ ~Has(parents, id) /\ ~Has(children, id)
    /\ \A k \in DOMAIN parents : ~InSeq(id, parents[k])
    /\ \A k \in DOMAIN children : ~InSeq(id, children[k])

\* C21: when a Removed change for a known id is integrated the id is
\* afterwards in no entry, no parents list and no children list, and the
\* provider keeps answering requests.
C21_RemovedDetaches ==
    [][(check_and_apply_changes(RemovedChange) /\ Has(entries, RemovedChange.id))
       => /\ ~Has(entries', RemovedChange.id)
          /\ Detached(RemovedChange.id)'
          /\ pstate' = "listening"]_vars

\* the changes of the feed that report a parents list other than the stored one
Moves ==
    {c \in Changes : /\ c.kind = "File"
                     /\ Has(entries, get_correct_id(c.id))
                     /\ IsSome(c.parents)
                     /\ c.parents # entries[get_correct_id(c.id)].metadata.parents}
OldParents(id) ==
    IF IsSome(entries[id].metadata.parents) THEN Unwrap(entries[id].metadata.parents)
    ELSE <<>>

\* C22: integrating a file change that reports a parents list other than the
\* stored one makes parents[id] the new list, removes the id from the children
\* of every old parent and adds it to the children of every new parent, so
\* that ReadDir lists it under the new parents only.
C22_ChangeMovesEntry ==
    [][\A c \in Moves :
          check_and_apply_changes(c)
          => LET id == get_correct_id(c.id)
                 new == Unwrap(c.parents)
             IN /\ ListOf(parents', id) = new
                /\ \A p \in AllIds :
                      /\ InSeq(p, new) => InSeq(id, ListOf(children', p))
                      /\ (InSeq(p, OldParents(id)) /\ ~InSeq(p, new))
                           => ~InSeq(id, ListOf(children', p))]_vars

\* the changes of the feed whose id has no entry
UnknownChanges == {c \in Changes : ~Has(entries, get_correct_id(c.id))}

\* C23: a change of the feed whose id has no entry is ignored: it leaves
\* entries, parents, children and the handles unchanged, and the provider
\* keeps answering requests.
C23_UnknownChangeIgnored ==
    [][\A c \in UnknownChanges :
          check_and_apply_changes(c)
          => /\ UNCHANGED <<entries, parents, children, file_handles>>
             /\ pstate' = "listening"]_vars

\* ---------------------------------------------------------- end of the task
Serving == pstate \in {"new", "listening"}

\* C24: the provider task serves requests until a Stop command arrives or the
\* request channel is closed and ends in exactly those two cases; once it has
\* ended no request is handled any more.
C24_ExitOnStopOrClose ==
    /\ [](~Serving => pstate \in {"stopped", "requests_closed"})
    /\ [][~Serving => UNCHANGED pvars]_vars

\* -------------------------------------------------------------- open flags
\* the HandleFlags of the handle the Open answered last has created
OpenedFlags == file_handles[resp.fh].flags
OnlyReadWrite(hf) ==
    /\ hf.o_rdwr
    /\ ~(hf.o_rdonly \/ hf.o_wronly \/ hf.o_append \/ hf.o_dsync \/ hf.o_nonblock
           \/ hf.o_rsync \/ hf.o_sync)

\* C25: for every flag word of an Open, can_read holds iff the two low bits
\* of the word are 0 (read-only) or 2 (read-write) and can_write iff they are
\* 1 (write-only) or 2, whatever other bits are set; flags in which only
\* read-write is set convert back to the integer 2.
C25_AccessMode ==
    Answered("OpenFile") =>
        LET word == resp.val[1]
            mode == word % 4
        IN /\ can_read(OpenedFlags) <=> mode \in {0, 2}
           /\ can_write(OpenedFlags) <=> mode \in {1, 2}
           /\ OnlyReadWrite(OpenedFlags) => HandleFlagsInto(OpenedFlags) = 2
           /\ word = 2 => OnlyReadWrite(OpenedFlags)
\* an Open with the word 0x8000 was answered: the handle reads and does not write
C25_Witness ==
    /\ Answered("OpenFile")
    /\ resp.val[1] = 32768
    /\ can_read(OpenedFlags) /\ ~can_write(OpenedFlags)

\* ----------------------------------------------------------------- uploads
\* an upload of id has just been started
UploadStarted(id) ==
    Task(id, "upload", "started") \in tasks' /\ Task(id, "upload", "started") \notin tasks

\* C26: the metadata an upload sends to the remote carries no parents list,
\* also when the entry was renamed into another directory before.
C26_NoWholesaleParents ==
    [][\A id \in FileIds :
          UploadStarted(id) => ~IsSome(UploadMetadata(id, entries[id]).parents)]_vars

\* the listed objects of the remote, as a set
Listed == {remoteFiles[i] : i \in 1..Len(remoteFiles)}
\* the seven cloud-native app types
NativeAppMimes == AppMimes \ {"application/vnd.google-apps.*"}
\* id is in no parents list and in no children list, and has neither itself
Unrelated(id) ==
    /\ ~Has(parents, id)
    /\ \A p \in DOMAIN children : \A i \in 1..Len(children[p]) : children[p][i] # id

\* C27: after initialize_entries no entry has one of the seven app mime types,
\* an object of such a type has added no parent/child relation, every entry
\* with the folder mime type is a Directory with perm 0755 and every other
\* entry is a RegularFile with perm 0644.
C27_MimeFiltering ==
    Initialized =>
        /\ \A id \in DOMAIN entries :
              /\ entries[id].metadata.mime \notin NativeAppMimes
              /\ IF entries[id].metadata.mime = FolderMime
                 THEN entries[id].kind = "Directory" /\ entries[id].perm = 493
                 ELSE entries[id].kind = "RegularFile" /\ entries[id].perm = 420
        /\ \A md \in Listed :
              md.mime \in NativeAppMimes =>
                  /\ ~Has(entries, Unwrap(md.id))
                  /\ Unrelated(Unwrap(md.id))

\* a spreadsheet G was listed and skipped next to folder A and plain file F
C27_Witness ==
    /\ Initialized
    /\ \E md \in Listed : md.mime = "application/vnd.google-apps.spreadsheet"
    /\ ~Has(entries, "G")
    /\ entries["A"].kind = "Directory"
    /\ entries["F"].kind = "RegularFile"

\* ------------------------------------------------------- failed downloads
\* the download task of id that has returned Err
FailedDownload(id) == Task(id, "download", "err")

\* C28: when a handler has awaited the failed download of an id the entry is
\* not left marked is_local (or a new download has been started at once), and
\* a Read answers with bytes only when the cache file holds the content of
\* the remote, never from an empty or partly written file.
C28_RecoverFromFailedDownload ==
    /\ [][\A id \in FileIds :
            (FailedDownload(id) \in tasks /\ FailedDownload(id) \notin tasks')
                => \/ ~entries'[id].is_local
                   \/ Task(id, "download", "started") \in tasks']_vars
    /\ [][ReadAnswered => FileContent(resp'.id) = remote[resp'.id]]_vars

\* ------------------------------------------------------- background tasks
\* the tasks of the runtime that belong to id
TasksOf(id) == {t \in tasks : t.id = id}
\* this step spawns a task of the kind for id
Spawned(id, kind) ==
    Task(id, kind, "started") \in tasks' /\ Task(id, kind, "started") \notin tasks

FileRequests ==
    {"OpenFile", "ReadContent", "WriteContent", "SetAttr", "ReleaseFile", "Rename"}
\* the id the request answered by this step is about: the entry found under
\* the named parent for a Rename, the id of the request otherwise
Touched ==
    IF resp'.req = "Rename" THEN find_first_child_by_name(resp'.name, resp'.id)
    ELSE Some(resp'.id)

\* C30: a step that answers an Open, Read, Write, SetAttr, Release or Rename
\* of an id is taken only when no task of the id is still running, and it
\* leaves no awaited task behind: the tasks and the registration of the id
\* after the step are those of a task the step itself has spawned.
C30_NoOverlap ==
    [][(resp' # resp /\ resp'.req \in FileRequests /\ IsSome(Touched)) =>
         LET id == Unwrap(Touched) IN
         /\ \A t \in TasksOf(id) : TaskDone(t)
         /\ \A t \in tasks' : t.id = id => (t.stage = "started" /\ t \notin tasks)
         /\ id \in DOMAIN running_requests' => \E t \in tasks' : t.id = id]_vars

\* a Write has been answered after it awaited and removed the download of F
C30_Witness ==
    /\ resp.req = "WriteContent" /\ resp.kind = "WriteContent" /\ resp.id = "F"
    /\ downloads["F"] = 1
    /\ TasksOf("F") = {}
    /\ ~Has(running_requests, "F")
    /\ cache["F"] = Some(<<1, 2>>)

\* -------------------------------------------------------- upload scheduler
UploadTasksOf(id) == {t \in uploader.tasks : t.id = id}
\* the tasks this step has spawned
NewUploadTasks ==
    {t \in uploader'.tasks :
        \A o \in uploader.tasks : o.id # t.id \/ o.serial # t.serial}

\* C31: the scheduler holds at most one upload task per id; the step that
\* finds a registered task for the id of an UploadChange signals cancel to it
\* (when it still listens) and spawns nothing, and a task is spawned only when
\* every earlier task of its id has finished.
C31_OneUploadTaskPerId ==
    /\ [](\A id \in UploadIds : Cardinality(UploadTasksOf(id)) <= 1)
    /\ [][(uploader.state = "listening" /\ uploader'.state = "waiting") =>
            /\ NewUploadTasks = {}
            /\ \A t \in uploader'.tasks :
                  (t.id = Unwrap(Unwrap(uploader'.held).drive_id) /\ t.stage = "sleeping")
                      => t.cancel]_vars
    /\ [][\A t \in NewUploadTasks :
            \A o \in uploader.tasks : o.id = t.id => UploadTaskDone(o)]_vars

\* the second task of F sleeps after the first one was cancelled and awaited
C31_Witness ==
    /\ \E t \in uploader.tasks : t.id = "F" /\ t.serial = 2 /\ t.stage = "sleeping"
    /\ Cardinality(UploadTasksOf("F")) = 1
    /\ uploader.uploaded = <<>>

\* the UploadChange commands of the id so far have each entered the channel
\* within the debounce window of the one before
Coalesced(id) ==
    \A i \in 2..Len(uploader.sent[id]) :
        uploader.sent[id][i] - uploader.sent[id][i - 1] < DebounceTicks
UploadsOf(id) == {i \in 1..Len(uploader.uploaded) : uploader.uploaded[i].id = id}

\* C32: a remote upload starts only when the debounce window has passed since
\* its command; a sleeping task that has the cancel signal before its window
\* has elapsed does not upload; and commands of one id that follow each other
\* within the window cause, while the scheduler runs, at most one upload,
\* that of the last command.
C32_Debounce ==
    /\ [][\A i \in 1..Len(uploader'.uploaded) :
            i > Len(uploader.uploaded) =>
               LET u == uploader'.uploaded[i] IN
               /\ uploader.now >= uploader.sent[u.id][u.serial] + DebounceTicks
               /\ \A t \in uploader.tasks :
                     (t.id = u.id /\ t.serial = u.serial) => ~(t.cancel /\ t.remaining > 0)]_vars
    /\ [](\A id \in UploadIds :
            (uploader.state # "stopped" /\ Coalesced(id)) =>
                /\ Cardinality(UploadsOf(id)) <= 1
                /\ \A i \in UploadsOf(id) :
                      uploader.uploaded[i].serial = Len(uploader.sent[id]))

\* ------------------------------------------------ write-through filesystem
\* the conflict table for a remote checksum r, the local checksum l and the
\* cache checksum c
ConflictTable(r, l, c) ==
    IF ~IsSome(r) THEN "Missing"
    ELSE IF r = l /\ l = c THEN "Match"
    ELSE IF r = c THEN "LocalMismatch"
    ELSE IF r = l THEN "CacheMismatch"
    ELSE IF l = c THEN "RemoteMismatch"
    ELSE "Conflict"

\* C33: the result of every compare_checksums is the one the conflict table
\* gives for its three checksums, and it is never Unknown.
C33_CompareChecksums ==
    IsSome(legacy.compared) =>
        LET cmp == Unwrap(legacy.compared) IN
        /\ cmp.result = ConflictTable(cmp.r, cmp.l, cmp.c)
        /\ cmp.result # "Unknown"

\* a comparison of three pairwise different checksums has given Conflict
C33_Witness ==
    /\ IsSome(legacy.compared)
    /\ LET cmp == Unwrap(legacy.compared) IN
       /\ IsSome(cmp.r) /\ cmp.r # cmp.l /\ cmp.r # cmp.c /\ cmp.l # cmp.c
       /\ cmp.result = "Conflict"

\* C38: when the last comparison was CacheMismatch (the upload of the local
\* write is confirmed) and no write has followed, metadata with a new remote
\* checksum is classified RemoteMismatch and marks the entry for download.
C38_RemoteChangeAfterUpload ==
    [][(/\ legacy.last = "CacheMismatch"
        /\ legacy'.compared # legacy.compared
        /\ IsSome(legacy.remote)
        /\ legacy.remote # Unwrap(legacy.compared).r)
       => /\ legacy'.last = "RemoteMismatch"
          /\ legacy'.entry.has_upstream_content_changes]_vars

\* ------------------------------------------------------- request transport
Submitted(i) == inflight.call[i].state \in {"sending", "queued", "handling"}
Replied(i) == inflight.call[i].state = "replied"

\* C34: every request the adapter submits is answered exactly once: the
\* provider puts at most one message on its reply channel, the kernel gets at
\* most one reply, a reply that no message stands behind is EIO, and every
\* submitted upcall is replied to in the end, also when the handler fails, the
\* task aborts while it applies changes or a Stop arrives.
C34_AnsweredOnce ==
    /\ [](\A i \in Calls :
            /\ inflight.call[i].responses <= 1
            /\ inflight.call[i].replies <= 1
            /\ Replied(i) <=> inflight.call[i].replies = 1
            /\ (Replied(i) /\ inflight.call[i].responses = 0)
                  => inflight.call[i].reply = Some("EIO"))
    /\ \A i \in Calls : Submitted(i) ~> Replied(i)
C34_Witness ==
    /\ pstate \in {"stopped", "panicked"}
    /\ \E i, j \in Calls :
          /\ Replied(i) /\ inflight.call[i].responses = 1
          /\ Replied(j) /\ inflight.call[j].responses = 0
          /\ inflight.call[j].request = Some(ProviderRequest("OpenFile", "F", O_RDONLY))
          /\ inflight.call[j].reply = Some("EIO")

\* ------------------------------------------------------ upload on release
\* the handles through which, or next to which, the content was modified
Modified == ghost.wrote \cup ghost.resized

\* C35: every local content modification made through a handle is uploaded on
\* release: a ReleaseFile of a handle that was open while a Write or a SetAttr
\* size change modified the cache content of its id starts an upload of the id.
C35_ModificationUploaded ==
    [][(/\ resp' # resp
        /\ resp'.req = "ReleaseFile"
        /\ resp'.fh \in Modified
        /\ Has(file_handles, resp'.fh))
       => uploads'[resp'.id] = uploads[resp'.id] + 1]_vars

\* ----------------------------------------------------------- failed uploads
FailedUpload(id) == Task(id, "upload", "err")

\* C36: a failed background upload is not silently lost: when a request has
\* waited for the failed upload task of an id whose cache content differs from
\* the remote's, an upload of the id is running again or a handle of the id
\* is still marked as changed, so that a later request uploads the content.
C36_FailedUploadRetained ==
    [][\A id \in {"F"} :
          (/\ FailedUpload(id) \in tasks
           /\ FailedUpload(id) \notin tasks'
           /\ IsSome(cache'[id])
           /\ Unwrap(cache'[id]) # remote'[id])
          => \/ \E t \in tasks' : t.id = id /\ t.kind = "upload"
             \/ \E h \in DOMAIN file_handles' :
                   /\ file_handles'[h].path = id
                   /\ IsDirty(file_handles'[h])]_vars

\* ------------------------------------------------------- polls of the feed
Polled == poller'.polls # poller.polls
\* the changes of the page fetched by the step that convert to a Change
Convertible == {i \in 1..Len(poller'.page) : IsSome(try_from(poller'.page[i]))}

\* C37: no change fetched from the feed is silently dropped: when a poll
\* advances changes_start_token, every change of its page that converts has
\* been handed to process_change, also when another change of the page does
\* not convert; a poll that fails leaves the token and the time of the last
\* check as they were.
C37_NoChangeDropped ==
    [][/\ (Polled /\ poller'.changes_start_token # poller.changes_start_token)
          => \A i \in Convertible :
                InSeq(Unwrap(try_from(poller'.page[i])), poller'.handed)
       /\ (Polled /\ poller'.outcome = "failed")
          => /\ poller'.changes_start_token = poller.changes_start_token
             /\ poller'.recent = poller.recent]_vars

WithoutFirst(s, t, r) ==
    IF \A i \in 1..Len(s) : s[i] # t
    THEN r = s
    ELSE \E i \in 1..Len(s) :
            /\ s[i] = t
            /\ \A j \in 1..(i - 1) : s[j] # t
            /\ r = SubSeq(s, 1, i - 1) \o SubSeq(s, i + 1, Len(s))

\* C40: remove_first_element(target) removes exactly the first occurrence of
\* target and returns it, returns None and leaves the list as it is when target
\* does not occur, and keeps the order of the other elements; so removing one
\* parent-child relation leaves the order of the remaining siblings unchanged
\* and removes at most one occurrence from the children and from the parents.
C40_RemoveFirstElement ==
    /\ vec.op = "removed" =>
          /\ WithoutFirst(vec.before, vec.target, vec.list)
          /\ vec.returned = IF InSeq(vec.target, vec.before) THEN Some(vec.target)
                            ELSE None
    /\ vec.op = "unlinked" =>
          /\ WithoutFirst(vec.before, vec.target, vec.list)
          /\ WithoutFirst(vec.parents_before, RealRoot, vec.parents)
          /\ Len(vec.list) >= Len(vec.before) - 1
          /\ Len(vec.parents) >= Len(vec.parents_before) - 1
          /\ SelectSeq(vec.list, LAMBDA x : x # vec.target)
                = SelectSeq(vec.before, LAMBDA x : x # vec.target)
C40_Witness ==
    /\ vec.op = "unlinked"
    /\ vec.before = <<"A", "F", "B">>
    /\ vec.target = "F"
    /\ vec.list = <<"A", "B">>
    /\ vec.parents_before = <<RealRoot, RealRoot>>
    /\ vec.parents = <<RealRoot>>
====
